---------------------------- MODULE Spec2Model ----------------------------
(***************************************************************************)
(* A model of the imgproc-dh tools binarize-sauvola (README.md listing),   *)
(* isolate-bg (unnamed/part_003) and mask-op (unnamed/part_002).           *)
(*                                                                         *)
(* Images are functions from positions <<y, x>> (0-based, as in the code)  *)
(* to samples.  Except in the specification SpecDouble, which computes in  *)
(* binary64 bit for bit, the double arithmetic of the code is modelled by  *)
(* real arithmetic: a real is kept as a rational plus a rational multiple  *)
(* of one square root, and every comparison or conversion to an integer is *)
(* decided exactly on integers (with multi-limb products where a 32-bit    *)
(* product would not fit).  Conversions are modelled by what they do: a    *)
(* double stored into an int truncates toward zero, an int stored into an  *)
(* unsigned char is reduced modulo 256.                                    *)
(***************************************************************************)
EXTENDS Integers, Sequences, FiniteSets, TLC

VARIABLES
    pc,       \* position of the running program in its main()
    cfg,      \* the option values left by argparse()
    img,      \* Mat img as loaded: the input image
    c,        \* binarize-sauvola: index of the window being processed
    stats,    \* binarize-sauvola: total1/total2 of every pixel, last window
    threshold,\* binarize-sauvola: int threshold of every pixel, last window
    dst,      \* binarize-sauvola: Mat dst of the last window
    realdst,  \* binarize-sauvola: Mat realdst
    ub,       \* places where a division had a zero divisor
    nanByte,  \* what this build stores when a NaN is converted to unsigned char
    written,  \* what imwrite() was given (<<>> while nothing is written)
    mask,     \* isolate-bg: Mat tmp of main(), the mask given to fastInpaint
    bg,       \* isolate-bg: Mat bg of main(), which is dst inside fastInpaint
    iter,     \* isolate-bg: i of the diffusion loop of fastInpaint
    ret,      \* isolate-bg: what fastInpaint returned ("none", "true" or "false")
    out,      \* isolate-bg: Mat img of main() once the output stage rewrote it
    argv,     \* binarize-sauvola: the options of the command line, in order
    optind    \* binarize-sauvola: index of the next option getopt_long returns

isoVars == <<mask, bg, iter, ret, out>>

sauvolaVars == <<c, stats, threshold, dst, realdst>>

argVars == <<argv, optind>>

vars == <<pc, cfg, img, ub, nanByte, written, sauvolaVars, isoVars, argVars>>

---------------------------------------------------------------------------
(* Bounds of the model.                                                    *)

ImgW == 3
ImgH == 2
MaxWindow == 4

Pos == (0 .. ImgH - 1) \X (0 .. ImgW - 1)

---------------------------------------------------------------------------
(* Integer helpers.                                                        *)

Min(a, b) == IF a < b THEN a ELSE b
Max(a, b) == IF a < b THEN b ELSE a
Abs(a) == IF a < 0 THEN -a ELSE a

\* floor(a / b) for b > 0 and any a
FloorDiv(a, b) == IF a >= 0 THEN a \div b ELSE -((-a + b - 1) \div b)

RECURSIVE Gcd(_, _)
Gcd(a, b) == IF b = 0 THEN a ELSE Gcd(b, a % b)

\* a rational <<n, d>>, d > 0, in lowest terms
Reduce(n, d) ==
    LET g == Gcd(Abs(n), d)
    IN  <<n \div g, d \div g>>

RECURSIVE IsqrtIn(_, _, _)
IsqrtIn(n, lo, hi) ==
    IF lo >= hi THEN lo
    ELSE LET mid == (lo + hi + 1) \div 2
         IN  IF mid * mid <= n THEN IsqrtIn(n, mid, hi) ELSE IsqrtIn(n, lo, mid - 1)

\* floor(sqrt(n)) for 0 <= n < 2^31
Isqrt(n) == IsqrtIn(n, 0, Min(n, 46340))

(* Non-negative integers of any size, as little-endian sequences of limbs. *)
Base == 32768

RECURSIVE BigFromInt(_)
BigFromInt(n) == IF n = 0 THEN <<>> ELSE <<n % Base>> \o BigFromInt(n \div Base)

RECURSIVE BigMulSmall(_, _, _)
BigMulSmall(X, m, carry) ==
    IF X = <<>> THEN BigFromInt(carry)
    ELSE LET t == Head(X) * m + carry
         IN  <<t % Base>> \o BigMulSmall(Tail(X), m, t \div Base)

RECURSIVE BigAdd(_, _, _)
BigAdd(X, Y, carry) ==
    IF X = <<>> /\ Y = <<>> THEN BigFromInt(carry)
    ELSE LET a == IF X = <<>> THEN 0 ELSE Head(X)
             b == IF Y = <<>> THEN 0 ELSE Head(Y)
             t == a + b + carry
         IN  <<t % Base>> \o BigAdd(IF X = <<>> THEN X ELSE Tail(X),
                                    IF Y = <<>> THEN Y ELSE Tail(Y), t \div Base)

RECURSIVE BigMul(_, _)
BigMul(X, Y) ==
    IF Y = <<>> \/ X = <<>> THEN <<>>
    ELSE BigAdd(BigMulSmall(X, Head(Y), 0), <<0>> \o BigMul(X, Tail(Y)), 0)

RECURSIVE BigNorm(_)
BigNorm(X) ==
    IF X = <<>> THEN X
    ELSE IF X[Len(X)] = 0 THEN BigNorm(SubSeq(X, 1, Len(X) - 1)) ELSE X

RECURSIVE BigLeqFrom(_, _, _)
BigLeqFrom(X, Y, i) ==
    IF i = 0 THEN TRUE
    ELSE IF X[i] # Y[i] THEN X[i] < Y[i]
    ELSE BigLeqFrom(X, Y, i - 1)

BigLeq(X, Y) ==
    LET A == BigNorm(X)
        B == BigNorm(Y)
    IN  IF Len(A) # Len(B) THEN Len(A) < Len(B) ELSE BigLeqFrom(A, B, Len(A))

RECURSIVE BigProd(_)
BigProd(S) ==
    IF S = <<>> THEN <<1>>
    ELSE BigMul(BigFromInt(Abs(Head(S))), BigProd(Tail(S)))

\* |s1 * s2 * ...| <= |t1 * t2 * ...|
ProdLeq(S, T) == BigLeq(BigProd(S), BigProd(T))

\* X * k <= Y * sqrt(N)   (k > 0, Y >= 0, N >= 0, X any integer)
LeqSurd(X, k, Y, N) == X <= 0 \/ ProdLeq(<<X, X, k, k>>, <<Y, Y, N>>)

\* X * k >= Y * sqrt(N)   (k > 0, Y >= 0, N >= 0, X any integer)
GeqSurd(X, k, Y, N) == X >= 0 /\ ProdLeq(<<Y, Y, N>>, <<X, X, k, k>>)

---------------------------------------------------------------------------
(* IEEE 754 binary64 values, bit for bit.  A finite non-negative double is *)
(* [m |-> M, e |-> e] with value M * 2^e, where M is a 53-bit integer kept *)
(* as limbs (2^52 <= M < 2^53), or the zero [m |-> <<>>, e |-> 0].  Every  *)
(* operation rounds its exact result to nearest, ties to even, as the      *)
(* hardware does.  Subnormals and overflow are out of the range used.      *)

MantissaBits == 53

\* F applied to the values of its arguments, each evaluated once, before F is
Bind1(F(_), a) == CHOOSE r \in {F(v) : v \in {a}} : TRUE
Bind2(F(_, _), a, b) == CHOOSE r \in {F(v, w) : v \in {a}, w \in {b}} : TRUE

RECURSIVE Pow2(_)
Pow2(n) == IF n = 0 THEN 1 ELSE 2 * Pow2(n - 1)

RECURSIVE BitsOf(_)
BitsOf(n) == IF n = 0 THEN 0 ELSE 1 + BitsOf(n \div 2)

\* the number of bits of a normalised multi-limb integer (Base = 2^15)
BigBits(X) == IF X = <<>> THEN 0 ELSE 15 * (Len(X) - 1) + BitsOf(X[Len(X)])

\* <<quotient, remainder>> of X by a small d, 0 < d < 2^16
RECURSIVE BigDivRem(_, _)
BigDivRem(X, d) ==
    IF X = <<>> THEN <<(<<>>), 0>>
    ELSE Bind1(LAMBDA hi : <<(<<(hi[2] * Base + Head(X)) \div d>>) \o hi[1],
                             (hi[2] * Base + Head(X)) % d>>,
               BigDivRem(Tail(X), d))

BigShl(X, s) ==
    IF X = <<>> THEN X
    ELSE [i \in 1 .. (s \div 15) |-> 0] \o BigNorm(BigMulSmall(X, Pow2(s % 15), 0))

BigShr(X, s) ==
    IF s \div 15 >= Len(X) THEN <<>>
    ELSE BigNorm(BigDivRem(SubSeq(X, s \div 15 + 1, Len(X)), Pow2(s % 15))[1])

\* some of the s lowest bits of X is set
BigLowBits(X, s) ==
    \/ \E i \in 1 .. Min(s \div 15, Len(X)) : X[i] # 0
    \/ (s \div 15 < Len(X) /\ X[s \div 15 + 1] % Pow2(s % 15) # 0)

BigOdd(X) == X # <<>> /\ X[1] % 2 = 1

\* X - Y for X >= Y
RECURSIVE BigSub(_, _, _)
BigSub(X, Y, borrow) ==
    IF X = <<>> THEN <<>>
    ELSE LET b == IF Y = <<>> THEN 0 ELSE Head(Y)
             t == Head(X) - b - borrow
         IN  <<(t + Base) % Base>>
                 \o BigSub(Tail(X), IF Y = <<>> THEN Y ELSE Tail(Y), IF t < 0 THEN 1 ELSE 0)

\* the largest q in lo .. hi with q * D <= R (it holds for lo)
RECURSIVE BigDigit(_, _, _, _)
BigDigit(R, D, lo, hi) ==
    IF lo >= hi THEN lo
    ELSE LET mid == (lo + hi + 1) \div 2
         IN  IF BigLeq(BigMulSmall(D, mid, 0), R) THEN BigDigit(R, D, mid, hi)
             ELSE BigDigit(R, D, lo, mid - 1)

\* <<quotient, remainder>> of X by D > 0, limb by limb from the top
RECURSIVE BigDivBig(_, _)
BigDivBig(X, D) ==
    IF X = <<>> THEN <<(<<>>), (<<>>)>>
    ELSE Bind1(LAMBDA hi :
             Bind1(LAMBDA R :
                 Bind1(LAMBDA q : <<(<<q>>) \o hi[1],
                                    BigNorm(BigSub(R, BigMulSmall(D, q, 0), 0))>>,
                       BigDigit(R, D, 0, Base - 1)),
                 BigNorm(<<Head(X)>> \o hi[2])),
             BigDivBig(Tail(X), D))

\* floor(sqrt(N)) by Newton's iteration from an S above it
RECURSIVE BigSqrtFrom(_, _)
BigSqrtFrom(N, S) ==
    Bind1(LAMBDA T : IF BigLeq(S, T) THEN S ELSE BigSqrtFrom(N, T),
          BigNorm(BigDivRem(BigAdd(S, BigNorm(BigDivBig(N, S)[1]), 0), 2)[1]))

BigSqrt(N) ==
    IF N = <<>> THEN N ELSE BigSqrtFrom(N, BigShl(<<1>>, (BigBits(N) + 1) \div 2))

\* N rounded to MantissaBits bits (plus a little, when sticky), times 2^e
RoundBits(N, e, sticky) ==
    LET s == BigBits(N) - MantissaBits
    IN  IF N = <<>> THEN [m |-> <<>>, e |-> 0]
        ELSE IF s <= 0 THEN [m |-> BigShl(N, -s), e |-> e + s]
        ELSE LET Q    == BigShr(N, s)
                 half == BigOdd(BigShr(N, s - 1))
                 rest == sticky \/ BigLowBits(N, s - 1)
                 up   == half /\ (rest \/ BigOdd(Q))
                 R    == IF up THEN BigNorm(BigAdd(Q, <<1>>, 0)) ELSE Q
             IN  IF BigBits(R) > MantissaBits
                 THEN [m |-> BigShr(R, 1), e |-> e + s + 1]
                 ELSE [m |-> R, e |-> e + s]

\* N0 * 2^e (plus a little, when sticky) rounded to a double
DRound(N0, e, sticky) == Bind1(LAMBDA N : RoundBits(N, e, sticky), BigNorm(N0))

\* an int converted to double (exact)
DFromInt(n) == DRound(BigFromInt(n), 0, FALSE)

DMul(a, b) ==
    Bind2(LAMBDA x, y : DRound(BigMul(x.m, y.m), x.e + y.e, FALSE), a, b)

\* a / d for an integer-valued double divisor 0 < d < 2^16
DDivInt(a, d) ==
    Bind1(LAMBDA x :
              Bind1(LAMBDA qr : DRound(qr[1], x.e - 75, qr[2] # 0),
                    BigDivRem(BigShl(x.m, 75), d)),
          a)

\* a + b
DAdd(a, b) ==
    Bind2(LAMBDA x, y :
              IF x.m = <<>> THEN y
              ELSE IF y.m = <<>> THEN x
              ELSE DRound(BigAdd(BigShl(x.m, x.e - Min(x.e, y.e)),
                                 BigShl(y.m, y.e - Min(x.e, y.e)), 0),
                          Min(x.e, y.e), FALSE),
          a, b)

\* a - b for a >= b
DSub(a, b) ==
    Bind2(LAMBDA x, y :
              IF y.m = <<>> THEN x
              ELSE DRound(BigSub(BigShl(x.m, x.e - Min(x.e, y.e)),
                                 BigShl(y.m, y.e - Min(x.e, y.e)), 0),
                          Min(x.e, y.e), FALSE),
          a, b)

\* a / b for b > 0
DDiv(a, b) ==
    Bind2(LAMBDA x, y :
              IF x.m = <<>> THEN x
              ELSE Bind1(LAMBDA qr : DRound(qr[1], x.e - y.e - 60, qr[2] # <<>>),
                         BigDivBig(BigShl(x.m, 60), y.m)),
          a, b)

\* sqrt(a)
DSqrt(a) ==
    Bind1(LAMBDA x :
              IF x.m = <<>> THEN x
              ELSE Bind1(LAMBDA N :
                       Bind1(LAMBDA S : DRound(S, (x.e - BigBits(N) + MantissaBits) \div 2,
                                               BigNorm(BigMul(S, S)) # N),
                             BigSqrt(N)),
                       BigShl(x.m, IF x.e % 2 = 0 THEN 58 ELSE 59)),
          a)

\* a < b
DLess(a, b) ==
    \E x \in {a}, y \in {b} :
        IF y.m = <<>> THEN FALSE
        ELSE IF x.m = <<>> THEN TRUE
        ELSE IF x.e # y.e THEN x.e < y.e
        ELSE x.m # y.m /\ BigLeq(x.m, y.m)

\* (int) a: the integer part of a double below 2^31
DToInt(a) ==
    Bind1(LAMBDA x :
              IF x.m = <<>> \/ x.e <= -MantissaBits THEN 0
              ELSE Bind1(LAMBDA X : (IF Len(X) >= 1 THEN X[1] ELSE 0)
                                        + (IF Len(X) >= 2 THEN X[2] * Base ELSE 0)
                                        + (IF Len(X) >= 3 THEN X[3] * Base * Base ELSE 0),
                         IF x.e >= 0 THEN BigShl(x.m, x.e) ELSE BigShr(x.m, -x.e)),
          a)

---------------------------------------------------------------------------
(* binarize-sauvola: options after argparse().  A double option is kept as *)
(* a rational <<n, d>>.                                                    *)

windowSizeLimit == 16843009

Modes == {"OUT_BINARY", "OUT_THRESHOLD", "OUT_PIXELINFO", "OUT_VARIABLE",
          "OUT_VARIABLE_MULTIW"}

\* the last element of a non-empty list, repeated until there are three
RECURSIVE FillToThree(_)
FillToThree(L) == IF Len(L) >= 3 THEN L ELSE FillToThree(Append(L, L[Len(L)]))

RECURSIVE MaxOf(_)
MaxOf(L) == IF Len(L) = 1 THEN L[1] ELSE Max(L[1], MaxOf(Tail(L)))

\* SauvolaArgs with windowSize left at the first size of the -X list
SauvolaArgs_FirstWindow(mode, wsize, xlist, k, r, t, b) ==
    [programMode     |-> mode,
     windowSize      |-> IF mode = "OUT_VARIABLE_MULTIW" THEN xlist[1] ELSE wsize,
     multiWindowSize |-> IF mode = "OUT_VARIABLE_MULTIW" THEN FillToThree(xlist)
                         ELSE <<wsize>>,
     kParam |-> k, rScale |-> r, tScale |-> t, tBias |-> b]

\* argparse(), after the option loop: what the globals hold for the mode,
\* the -w value, the -X list and the -k, -r, -t, -b values given
SauvolaArgs(mode, wsize, xlist, k, r, t, b) ==
    [programMode     |-> mode,
     windowSize      |-> IF mode = "OUT_VARIABLE_MULTIW" THEN MaxOf(FillToThree(xlist))
                         ELSE wsize,
     multiWindowSize |-> IF mode = "OUT_VARIABLE_MULTIW" THEN FillToThree(xlist)
                         ELSE <<wsize>>,
     kParam |-> k, rScale |-> r, tScale |-> t, tBias |-> b]

\* the checks argparse() makes on the values
SauvolaArgsOk(mode, wsize, xlist, k, r, t, b) ==
    /\ wsize >= 1 /\ wsize <= windowSizeLimit
    /\ \A i \in 1 .. Len(xlist) : xlist[i] >= 1 /\ xlist[i] <= windowSizeLimit
    /\ Len(xlist) <= 3
    /\ k[1] >= 0
    /\ r[1] > 0
    /\ t[1] > 0
    /\ (mode \in {"OUT_VARIABLE", "OUT_VARIABLE_MULTIW"} => r[1] >= r[2])
    /\ (mode = "OUT_VARIABLE_MULTIW" => Len(xlist) >= 1)

---------------------------------------------------------------------------
(* Padding and the two integral images (README.md 372-410; the same code   *)
(* is in binarizeUsingSauvola, part_003 317-363).                          *)

Clamp(v, lo, hi) == IF v < lo THEN lo ELSE IF v > hi THEN hi ELSE v

WinN(wsize) == IF (wsize % 2) # 0 THEN wsize \div 2 + 1 ELSE wsize \div 2
WinP(wsize) == wsize \div 2

\* copyMakeBorder(img, padimg, win_n, win_p, win_n, win_p, BORDER_REPLICATE):
\* padimg.at(Y, X)
PadAt(im, wsize, Y, X) ==
    im[<<Clamp(Y - WinN(wsize), 0, ImgH - 1), Clamp(X - WinN(wsize), 0, ImgW - 1)>>]

PadW(wsize) == ImgW + wsize
PadH(wsize) == ImgH + wsize

\* value (for buffer1) or value * value (for buffer2)
Sample(im, wsize, sq, y, x) ==
    LET value == PadAt(im, wsize, y, x)
    IN  IF sq THEN value * value ELSE value

\* FillBuffer with the running sum of a row carried over into the next row
RECURSIVE FillBuffer_NoRowReset(_, _, _, _, _)
FillBuffer_NoRowReset(im, wsize, sq, buf, accum) ==
    LET pw == PadW(wsize)
        i  == Len(buf)
        y  == i \div pw
        x  == i % pw
        a  == accum + Sample(im, wsize, sq, y, x)
    IN  IF i = pw * PadH(wsize) THEN buf
        ELSE FillBuffer_NoRowReset(im, wsize, sq,
                 Append(buf, IF y = 0 THEN a ELSE a + buf[pw * (y - 1) + x + 1]), a)

\* The two loops that fill buffer1 (or buffer2): buf holds the entries written so
\* far (entry i of the code is buf[i + 1]) and accum the running sum of the row.
RECURSIVE FillBuffer(_, _, _, _, _)
FillBuffer(im, wsize, sq, buf, accum) ==
    LET pw == PadW(wsize)
        i  == Len(buf)
        y  == i \div pw
        x  == i % pw
        a  == (IF x = 0 THEN 0 ELSE accum) + Sample(im, wsize, sq, y, x)
    IN  IF i = pw * PadH(wsize) THEN buf
        ELSE FillBuffer(im, wsize, sq,
                        Append(buf, IF y = 0 THEN a ELSE a + buf[pw * (y - 1) + x + 1]), a)

\* buffer1 (sq = FALSE) or buffer2 (sq = TRUE), indexed from 0 as in the code
Integral(im, wsize, sq) ==
    LET buf == FillBuffer(im, wsize, sq, <<>>, 0)
    IN  [i \in 0 .. Len(buf) - 1 |-> buf[i + 1]]

\* Total with the lower corners taken one row too high
Total_RowOff(buffer, wsize, y, x) ==
    LET pw == PadW(wsize)
        Y0 == pw * y
        Y1 == pw * (y + wsize - 1)
    IN  buffer[Y1 + (x + wsize)] - buffer[Y1 + x] + buffer[Y0 + x]
            - buffer[Y0 + (x + wsize)]

\* total1 / total2 of pixel (x, y): the four-corner difference
Total(buffer, wsize, y, x) ==
    LET pw == PadW(wsize)
        Y0 == pw * y
        Y1 == pw * (y + wsize)
    IN  buffer[Y1 + (x + wsize)] - buffer[Y1 + x] + buffer[Y0 + x]
            - buffer[Y0 + (x + wsize)]

WindowStats(im, wsize) ==
    LET buffer1 == Integral(im, wsize, FALSE)
        buffer2 == Integral(im, wsize, TRUE)
    IN  [p \in Pos |-> [total1 |-> Total(buffer1, wsize, p[1], p[2]),
                        total2 |-> Total(buffer2, wsize, p[1], p[2])]]

---------------------------------------------------------------------------
(* The per-pixel decision of binarize-sauvola (README.md 428-461).         *)
(*                                                                         *)
(* With w2 = wsize * wsize and N = total2 * w2 - total1 * total1:          *)
(*     mean = total1 / w2        stddev = sqrt(N) / w2                     *)
(*     rParam = rScale * 127.5   tRealBias = 255 * tBias                   *)

Sq(wsize) == wsize * wsize

SurdN(t1, t2, wsize) == t2 * Sq(wsize) - t1 * t1

TRealBias(cf) == Reduce(255 * cf.tBias[1], cf.tBias[2])

\* 255 * rn * w2: the denominator of stddev / rParam = 2 * rd * sqrt(N) / (255 * rn * w2)
RDen(wsize, cf) == 255 * cf.rScale[1] * Sq(wsize)

\* the common denominator of the rational part of the threshold
ThrDen(wsize, cf) == cf.tScale[2] * Sq(wsize) * cf.kParam[2] * TRealBias(cf)[2]

\* ThrNum with the "- 1" of (stddev / rParam - 1) left out
ThrNum_NoMinusOne(t1, wsize, cf) ==
    cf.tScale[1] * t1 * cf.kParam[2] * TRealBias(cf)[2]
        + TRealBias(cf)[1] * cf.tScale[2] * Sq(wsize) * cf.kParam[2]

\* the rational part tScale * mean * (1 - K) + tRealBias, times ThrDen
ThrNum(t1, wsize, cf) ==
    cf.tScale[1] * t1 * (cf.kParam[2] - cf.kParam[1]) * TRealBias(cf)[2]
        + TRealBias(cf)[1] * cf.tScale[2] * Sq(wsize) * cf.kParam[2]

\* the coefficient of sqrt(N) / RDen in the threshold, times ThrDen
ThrSurd(t1, cf) ==
    cf.tScale[1] * t1 * cf.kParam[1] * 2 * cf.rScale[2] * TRealBias(cf)[2]

\* n <= tScale * mean * (1 + kParam * (stddev / rParam - 1)) + tRealBias
ThresholdGeq(n, t1, t2, wsize, cf) ==
    LeqSurd(n * ThrDen(wsize, cf) - ThrNum(t1, wsize, cf), RDen(wsize, cf),
            ThrSurd(t1, cf), SurdN(t1, t2, wsize))

\* n >= tScale * mean * (1 + kParam * (stddev / rParam - 1)) + tRealBias
ThresholdLeq(n, t1, t2, wsize, cf) ==
    GeqSurd(n * ThrDen(wsize, cf) - ThrNum(t1, wsize, cf), RDen(wsize, cf),
            ThrSurd(t1, cf), SurdN(t1, t2, wsize))

RECURSIVE StepUp(_, _, _, _, _)
StepUp(n, t1, t2, wsize, cf) ==
    IF ThresholdGeq(n + 1, t1, t2, wsize, cf) THEN StepUp(n + 1, t1, t2, wsize, cf)
    ELSE n

\* the floor of the real-valued threshold
ThresholdFloor(t1, t2, wsize, cf) ==
    LET N == SurdN(t1, t2, wsize)
        Y == ThrSurd(t1, cf)
        fa == FloorDiv(ThrNum(t1, wsize, cf), ThrDen(wsize, cf))
    IN  IF N = 0 \/ Y = 0 THEN fa
        ELSE StepUp(fa + (Y * Isqrt(N)) \div (RDen(wsize, cf) * ThrDen(wsize, cf)),
                    t1, t2, wsize, cf)

\* int threshold = <double>: the conversion truncates toward zero
ThresholdInt(t1, t2, wsize, cf) ==
    LET fl == ThresholdFloor(t1, t2, wsize, cf)
    IN  IF fl >= 0 \/ ThresholdLeq(fl, t1, t2, wsize, cf) THEN fl ELSE fl + 1

\* an int stored into an unsigned char
ToUchar(n) == n % 256

\* dst.at(y, x) of the OUT_BINARY branch
BinaryOut(v, thr) == IF v > thr THEN 255 ELSE 0

\* dst.at(y, x) of the OUT_THRESHOLD branch
ThresholdOut(thr) == ToUchar(thr)

(* The variable threshold branch (README.md 437-453).                      *)
(*     th1 = tScale * mean + tRealBias                                     *)
(*     th0 = tScale * mean * (stddev / rParam) + tRealBias                 *)

\* (v - tRealBias) times tScale's denominator, w2 and tRealBias' denominator
VarC(v, wsize, cf) ==
    (v * TRealBias(cf)[2] - TRealBias(cf)[1]) * cf.tScale[2] * Sq(wsize)

\* tScale * mean on the same scale
VarG(t1, cf) == cf.tScale[1] * t1 * TRealBias(cf)[2]

\* th1 - th0 = tScale * mean * (1 - stddev / rParam) is zero
VarZeroDivisor(t1, t2, wsize, cf) ==
    \/ t1 = 0
    \/ 4 * cf.rScale[2] * cf.rScale[2] * SurdN(t1, t2, wsize)
           = RDen(wsize, cf) * RDen(wsize, cf)

\* n <= 255 * (v - th0) / (th1 - th0), for th0 < v < th1
VarGeq(n, v, t1, t2, wsize, cf) ==
    GeqSurd(255 * VarC(v, wsize, cf) - n * VarG(t1, cf), RDen(wsize, cf),
            (255 - n) * VarG(t1, cf) * 2 * cf.rScale[2], SurdN(t1, t2, wsize))

RECURSIVE VarSearch(_, _, _, _, _, _, _)
VarSearch(lo, hi, v, t1, t2, wsize, cf) ==
    IF lo >= hi THEN lo
    ELSE LET mid == (lo + hi + 1) \div 2
         IN  IF VarGeq(mid, v, t1, t2, wsize, cf)
             THEN VarSearch(mid, hi, v, t1, t2, wsize, cf)
             ELSE VarSearch(lo, mid - 1, v, t1, t2, wsize, cf)

\* dst.at(y, x) of the variable branch when th1 - th0 is not zero:
\* v = max(min(v, th1), th0), then 255.0 * (v - th0) / (th1 - th0) as unsigned char
VariableOut(v, t1, t2, wsize, cf) ==
    IF VarC(v, wsize, cf) >= VarG(t1, cf) THEN 255
    ELSE IF LeqSurd(VarC(v, wsize, cf), RDen(wsize, cf),
                    VarG(t1, cf) * 2 * cf.rScale[2], SurdN(t1, t2, wsize)) THEN 0
    ELSE VarSearch(0, 255, v, t1, t2, wsize, cf)

\* realdst.at<Vec3b>(y, x) = Vec3b(chM, chD, chI) of OUT_PIXELINFO
PixelInfoOut(v, t1, t2, wsize) ==
    <<t1 \div Sq(wsize), Isqrt(4 * SurdN(t1, t2, wsize)) \div Sq(wsize), 255 - v>>

---------------------------------------------------------------------------
(* Inputs: two-level grayscale images over a few shapes, and the option    *)
(* values tried.                                                           *)

Shapes ==
    {{p \in Pos : p[1] < i /\ p[2] < j} : i \in 0 .. ImgH, j \in 0 .. ImgW}
        \cup {{p} : p \in Pos}
        \cup {{p \in Pos : (p[1] + p[2]) % 2 = 0}}

Levels == {<<0, 255>>, <<255, 0>>, <<128, 200>>, <<0, 128>>}

GrayImages ==
    {[p \in Pos |-> IF p \in S THEN lv[1] ELSE lv[2]] : S \in Shapes, lv \in Levels}

\* the outcomes tried for a NaN converted to unsigned char (undefined behaviour)
UBSamples == {0, 255}

\* -k, -r, -t, -b values tried: the defaults 0.4, 1.0, 1.0, 0.0 and changes of them
DefaultK == <<2, 5>>
One == <<1, 1>>
Zero == <<0, 1>>

BinaryParams ==
    {<<k, One, One, Zero>> : k \in {DefaultK, <<0, 1>>, <<2, 1>>}}
        \cup {<<DefaultK, r, One, Zero>> : r \in {<<2, 1>>, <<1, 2>>}}
        \cup {<<DefaultK, One, <<2, 1>>, Zero>>}
        \cup {<<k, One, One, b>> : k \in {DefaultK, <<0, 1>>}, b \in {<<-1, 510>>, <<1, 5>>}}

ThresholdParams ==
    {<<DefaultK, One, One, Zero>>, <<DefaultK, One, <<2, 1>>, Zero>>,
     <<<<2, 1>>, One, One, Zero>>, <<<<0, 1>>, One, One, <<-1, 510>>>>,
     <<<<0, 1>>, One, One, <<1, 5>>>>}

VariableParams ==
    {<<DefaultK, One, One, Zero>>, <<DefaultK, <<2, 1>>, One, Zero>>,
     <<DefaultK, One, <<2, 1>>, Zero>>, <<DefaultK, One, One, <<1, 5>>>>}

XLists ==
    {<<1>>, <<MaxWindow>>, <<2, 1>>, <<1, 3, 2>>, <<MaxWindow, 2, 3>>}

SauvolaConfigs ==
    {SauvolaArgs("OUT_BINARY", ws, <<>>, q[1], q[2], q[3], q[4]) :
        ws \in 1 .. MaxWindow, q \in BinaryParams}
    \cup {SauvolaArgs("OUT_THRESHOLD", ws, <<>>, q[1], q[2], q[3], q[4]) :
        ws \in 1 .. MaxWindow, q \in ThresholdParams}
    \cup {SauvolaArgs("OUT_PIXELINFO", ws, <<>>, DefaultK, One, One, Zero) :
        ws \in 1 .. MaxWindow}
    \cup {SauvolaArgs("OUT_VARIABLE", ws, <<>>, q[1], q[2], q[3], q[4]) :
        ws \in 1 .. MaxWindow, q \in VariableParams}
    \cup {SauvolaArgs("OUT_VARIABLE_MULTIW", 60, xl, DefaultK, One, One, Zero) :
        xl \in XLists}

---------------------------------------------------------------------------
(* binarize-sauvola: main() (README.md 305-497).                           *)

IntMax == 2147483647
Uninit == -1

\* PaddedSizeTooBig without the test of the product
PaddedSizeTooBig_NoProduct(w, h, wsize) ==
    \/ IntMax - wsize < w
    \/ IntMax - wsize < h

\* the test of "Check padded image size"
PaddedSizeTooBig(w, h, wsize) ==
    \/ IntMax - wsize < w
    \/ IntMax - wsize < h
    \/ IntMax \div (w + wsize) < h + wsize

oVariable(cf) == cf.programMode \in {"OUT_VARIABLE", "OUT_VARIABLE_MULTIW"}

\* the pixels of a window pass whose variable branch divides by zero
ZeroDivisors(st, wsize, cf) ==
    IF oVariable(cf)
    THEN {p \in Pos : VarZeroDivisor(st[p].total1, st[p].total2, wsize, cf)}
    ELSE {}

\* padimg.at(y + win_n, x + win_n): the pixel's own sample
Centre(im, wsize, p) == PadAt(im, wsize, p[1] + WinN(wsize), p[2] + WinN(wsize))

\* int threshold of every pixel (the branch that is not the variable one)
WindowThreshold(st, wsize, cf) ==
    IF oVariable(cf) THEN <<>>
    ELSE [p \in Pos |-> ThresholdInt(st[p].total1, st[p].total2, wsize, cf)]

\* Mat dst after the "Fast Sauvola's algorithm" loop of one window
WindowDst(im, st, thr, wsize, cf, nan) ==
    [p \in Pos |->
        IF oVariable(cf)
        THEN IF VarZeroDivisor(st[p].total1, st[p].total2, wsize, cf) THEN nan
             ELSE VariableOut(Centre(im, wsize, p), st[p].total1, st[p].total2, wsize, cf)
        ELSE IF cf.programMode = "OUT_THRESHOLD" THEN ThresholdOut(thr[p])
        ELSE BinaryOut(Centre(im, wsize, p), thr[p])]

\* MultiwChannels with realch = k
MultiwChannels_Ascending(cc, cf) ==
    LET d == IF cc + 1 = Len(cf.multiWindowSize) THEN 3 ELSE cc + 1
    IN  {k : k \in cc .. d - 1}

\* the channels window c (0-based) is copied to: realch = 2 - k for k = c .. d - 1
MultiwChannels(cc, cf) ==
    LET d == IF cc + 1 = Len(cf.multiWindowSize) THEN 3 ELSE cc + 1
    IN  {2 - k : k \in cc .. d - 1}

\* Mat realdst after the finalization of one window
WindowRealdst(old, im, st, d, wsize, cc, cf) ==
    IF cf.programMode = "OUT_VARIABLE_MULTIW"
    THEN [p \in Pos |-> [ch \in 1 .. 3 |->
             IF ch - 1 \in MultiwChannels(cc, cf) THEN d[p] ELSE old[p][ch]]]
    ELSE IF cf.programMode = "OUT_PIXELINFO"
    THEN [p \in Pos |->
             PixelInfoOut(Centre(im, wsize, p), st[p].total1, st[p].total2, wsize)]
    ELSE d

InitSauvola ==
    /\ pc = "check"
    /\ cfg \in SauvolaConfigs
    /\ img \in GrayImages
    /\ nanByte \in (IF oVariable(cfg) THEN UBSamples ELSE {0})
    /\ c = 0
    /\ stats = <<>>
    /\ threshold = <<>>
    /\ dst = <<>>
    /\ realdst = <<>>
    /\ ub = {}
    /\ written = <<>>
    /\ mask = <<>> /\ bg = <<>> /\ iter = 0 /\ ret = "none" /\ out = <<>>
    /\ argv = <<>> /\ optind = 1

\* "Check padded image size", then the allocation of realdst
SauvolaCheck ==
    /\ pc = "check"
    /\ IF PaddedSizeTooBig(ImgW, ImgH, cfg.windowSize)
       THEN pc' = "failed" /\ UNCHANGED realdst
       ELSE /\ pc' = "window"
            /\ realdst' = IF cfg.programMode \in {"OUT_PIXELINFO", "OUT_VARIABLE_MULTIW"}
                          THEN [p \in Pos |-> <<Uninit, Uninit, Uninit>>]
                          ELSE <<>>
    /\ UNCHANGED <<cfg, img, c, stats, threshold, dst, ub, nanByte, argVars, written, isoVars>>

\* one turn of "Iterate over window sizes"
SauvolaWindow ==
    /\ pc = "window"
    /\ c < Len(cfg.multiWindowSize)
    /\ LET wsize == cfg.multiWindowSize[c + 1]
           st    == WindowStats(img, wsize)
       IN  /\ stats' = st
           /\ threshold' = WindowThreshold(stats', wsize, cfg)
           /\ dst' = WindowDst(img, stats', threshold', wsize, cfg, nanByte)
           /\ realdst' = WindowRealdst(realdst, img, stats', dst', wsize, c, cfg)
           /\ ub' = ub \cup {<<c, p>> : p \in ZeroDivisors(stats', wsize, cfg)}
    /\ c' = c + 1
    /\ UNCHANGED <<pc, cfg, img, nanByte, argVars, written, isoVars>>

\* imwrite(filename_out, realdst, params); return 0
SauvolaWrite ==
    /\ pc = "window"
    /\ c = Len(cfg.multiWindowSize)
    /\ written' = realdst
    /\ pc' = "done"
    /\ UNCHANGED <<cfg, img, c, stats, threshold, dst, realdst, ub, nanByte, argVars, isoVars>>

NextSauvola == SauvolaCheck \/ SauvolaWindow \/ SauvolaWrite

SpecSauvola == InitSauvola /\ [][NextSauvola]_vars

---------------------------------------------------------------------------
(* binarize-sauvola with the statistics of README.md 379 and 428-429 and   *)
(* the thresholds of README.md 446-456 computed in binary64, bit for bit,  *)
(* for the Variable policy and for the Binary and ThresholdMap policies    *)
(* with K = 0, the bias being >= 0.  With                                  *)
(* kParam = 0.0 and a stddev that is a number, kParam * (stddev / rParam   *)
(* - 1) is a zero and the factor 1 + 0 is exactly 1; with a stddev that is *)
(* NaN the whole expression is NaN, and its conversion to int is undefined.*)

StatWindow == 7

\* strtod of an option value n/d, n >= 0
DFromRatio(q) == DDivInt(DFromInt(q[1]), q[2])

\* double invsqWindow = 1.0 / wsize / wsize
invsqWindow(wsize) == DDivInt(DDivInt(DFromInt(1), wsize), wsize)

\* double rParam = rScale * (255.0 * 0.5); double tRealBias = 255.0 * tBias
DoubleRParam(cf) == DMul(DFromRatio(cf.rScale), DRound(<<255>>, -1, FALSE))
DoubleTRealBias(cf) == DMul(DFromInt(255), DFromRatio(cf.tBias))

\* th1 = tScale * mean; th1 += tRealBias
DoubleTh1(mean, cf) == DAdd(DMul(DFromRatio(cf.tScale), mean), DoubleTRealBias(cf))

\* th0 = th1 * (1 + (stddev / rParam - 1)); th0 += tRealBias, stddev a number
DoubleTh0(mean, stddev, cf) ==
    LET one == DFromInt(1)
        x   == DDiv(stddev, DoubleRParam(cf))
        z   == IF DLess(one, x) THEN DAdd(one, DSub(x, one))
               ELSE DSub(one, DSub(one, x))
    IN  DAdd(DMul(DMul(DFromRatio(cf.tScale), mean), z), DoubleTRealBias(cf))

\* total1, total2, mean and stddev of one pixel, and th0 and th1 under the
\* variable policies: sqrt() of a difference below zero is NaN (nan is TRUE,
\* stddev and th0 are left 0)
DoublePixel(total1, total2, inv, cf) ==
    Bind1(LAMBDA mean :
        Bind2(LAMBDA sq, m2 :
            Bind1(LAMBDA sd :
                [total1 |-> total1, total2 |-> total2, mean |-> mean,
                 nan    |-> DLess(m2, sq),
                 stddev |-> sd,
                 th0    |-> IF oVariable(cf) /\ ~DLess(m2, sq)
                            THEN DoubleTh0(mean, sd, cf) ELSE DFromInt(0),
                 th1    |-> IF oVariable(cf) THEN DoubleTh1(mean, cf) ELSE DFromInt(0)],
                IF DLess(m2, sq) THEN DFromInt(0) ELSE DSqrt(DSub(m2, sq))),
            DMul(mean, mean), DMul(DFromInt(total2), inv)),
        DMul(DFromInt(total1), inv))

DoubleStats(im, wsize, cf) ==
    Bind2(LAMBDA st, inv :
              [p \in Pos |-> DoublePixel(st[p].total1, st[p].total2, inv, cf)],
          WindowStats(im, wsize), invsqWindow(wsize))

\* what a build may give for (int) NaN: INT_MIN (x86) or 0 (ARM)
NaNInts == {-2147483647 - 1, 0}

\* int threshold = tScale * mean * (1 + kParam * (stddev / rParam - 1)) + tRealBias
\* with kParam = 0.0
DoubleThreshold(sp, cf, nanInt) ==
    IF sp.nan THEN nanInt
    ELSE DToInt(DAdd(DMul(DFromRatio(cf.tScale), sp.mean), DoubleTRealBias(cf)))

\* th1 - th0 is zero: the rescaling is 0.0 / 0.0
DoubleZeroDivisor(sp) == ~sp.nan /\ sp.th0 = sp.th1

\* v = max(min(v, th1), th0); dst = 255.0 * (v - th0) / (th1 - th0), a NaN
\* stored as nan
DoubleVariableOut(v, sp, nan) ==
    IF sp.nan \/ DoubleZeroDivisor(sp) THEN nan
    ELSE LET th0 == sp.th0
             th1 == sp.th1
             lo  == IF DLess(th1, DFromInt(v)) THEN th1 ELSE DFromInt(v)
             cl  == IF DLess(lo, th0) THEN th0 ELSE lo
         IN  IF DLess(th1, th0) THEN 0
             ELSE DToInt(DDiv(DMul(DFromInt(255), DSub(cl, th0)), DSub(th1, th0)))

\* a gradient with a dip: windows of equal sum and different spread
Gradient == [p \in Pos |-> IF p = <<0, 0>> THEN 90 ELSE 60 * p[1] + 30 * p[2]]

UniformLevels == {0, 1, 5, 128, 255}

DoubleImages ==
    {[p \in Pos |-> v] : v \in UniformLevels}
        \cup {Gradient, [p \in Pos |-> IF p = <<0, 0>> THEN 0 ELSE 255]}

DoubleConfigs ==
    {SauvolaArgs(mode, ws, <<>>, Zero, One, q[1], q[2]) :
        mode \in {"OUT_BINARY", "OUT_THRESHOLD"}, ws \in 1 .. StatWindow,
        q \in {<<One, Zero>>, <<<<3, 2>>, <<1, 4>>>>}}
    \cup {SauvolaArgs("OUT_VARIABLE", ws, <<>>, DefaultK, q[1], q[2], q[3]) :
        ws \in 1 .. StatWindow,
        q \in {<<One, One, Zero>>, <<<<2, 1>>, <<3, 2>>, <<1, 4>>>>}}

InitDouble ==
    /\ pc = "check"
    /\ cfg \in DoubleConfigs
    /\ img \in DoubleImages
    /\ nanByte \in (IF oVariable(cfg) THEN UBSamples ELSE {0})
    /\ c = 0
    /\ stats = <<>>
    /\ threshold = <<>>
    /\ dst = <<>>
    /\ realdst = <<>>
    /\ ub = {}
    /\ written = <<>>
    /\ mask = <<>> /\ bg = <<>> /\ iter = 0 /\ ret = "none" /\ out = <<>>
    /\ argv = <<>> /\ optind = 1

\* one turn of "Iterate over window sizes"
DoubleWindow ==
    /\ pc = "window"
    /\ c < Len(cfg.multiWindowSize)
    /\ LET wsize == cfg.multiWindowSize[c + 1]
           st    == DoubleStats(img, wsize, cfg)
       IN  \E nanInt \in (IF oVariable(cfg) THEN {0} ELSE NaNInts) :
               /\ stats' = st
               /\ threshold' = IF oVariable(cfg) THEN <<>>
                                ELSE [p \in Pos |-> DoubleThreshold(stats'[p], cfg, nanInt)]
               /\ dst' = [p \in Pos |->
                             IF oVariable(cfg)
                             THEN DoubleVariableOut(Centre(img, wsize, p), stats'[p],
                                                    nanByte)
                             ELSE IF cfg.programMode = "OUT_THRESHOLD"
                             THEN ThresholdOut(threshold'[p])
                             ELSE BinaryOut(Centre(img, wsize, p), threshold'[p])]
               /\ realdst' = dst'
               /\ ub' = IF oVariable(cfg)
                        THEN ub \cup {<<c, p>> : p \in {q \in Pos : DoubleZeroDivisor(stats'[q])}}
                        ELSE ub
    /\ c' = c + 1
    /\ UNCHANGED <<pc, cfg, img, nanByte, argVars, written, isoVars>>

NextDouble == SauvolaCheck \/ DoubleWindow \/ SauvolaWrite

SpecDouble == InitDouble /\ [][NextDouble]_vars

---------------------------------------------------------------------------
(* binarize-sauvola from its command line: argparse() (README.md 155-301)  *)
(* option by option, then main().  An option is a record: opt is the       *)
(* character getopt_long returns, n the int of -w, q the double of -k, -r, *)
(* -t or -b as a rational, xs the ints between the commas of -X and name   *)
(* the string of --output-type.  The two file names are always present and *)
(* -S is not given.                                                        *)

defaultWindowSize == 60

MaxArgs == 3

\* the globals before argparse()
DefaultGlobals ==
    [programMode |-> "OUT_BINARY", windowSize |-> defaultWindowSize,
     multiWindowSize |-> <<>>, kParam |-> DefaultK, rScale |-> One,
     tScale |-> One, tBias |-> Zero]

Option(o, n, q, xs, name) == [opt |-> o, n |-> n, q |-> q, xs |-> xs, name |-> name]

Flag(o) == Option(o, 0, Zero, <<>>, "")

\* unordered_map pmodes
pmodes ==
    [name \in {"b", "binary", "binarized", "t", "threshold", "v", "variable", "p",
               "pixels", "pixelinfo", "multiw", "variable-multiw"} |->
        CASE name \in {"b", "binary", "binarized"} -> "OUT_BINARY"
          [] name \in {"t", "threshold"} -> "OUT_THRESHOLD"
          [] name \in {"v", "variable"} -> "OUT_VARIABLE"
          [] name \in {"p", "pixels", "pixelinfo"} -> "OUT_PIXELINFO"
          [] OTHER -> "OUT_VARIABLE_MULTIW"]

\* case 'X': the do-while over the tokens, from token i with the sizes pushed so
\* far; <<>> stands for a throw (a list that is returned has an element)
RECURSIVE MultiWindowTokens(_, _, _)
MultiWindowTokens(xs, i, sizes) ==
    IF Len(sizes) >= 3 THEN <<>>
    ELSE IF xs[i] < 1 \/ xs[i] > windowSizeLimit THEN <<>>
    ELSE IF i = Len(xs) THEN Append(sizes, xs[i])
    ELSE MultiWindowTokens(xs, i + 1, Append(sizes, xs[i]))

Continue(g) == [status |-> "argparse", g |-> g]
Exit(code, g) == [status |-> IF code = 0 THEN "exit0" ELSE "exit1", g |-> g]

\* the body of the switch for one option: the globals after it, or the exit
ArgparseCase(g, o) ==
    CASE o.opt \in {"h", "v"} -> Exit(0, g)
      [] o.opt = "T" -> Continue([g EXCEPT !.programMode = "OUT_THRESHOLD"])
      [] o.opt = "V" -> Continue([g EXCEPT !.programMode = "OUT_VARIABLE"])
      [] o.opt = "P" -> Continue([g EXCEPT !.programMode = "OUT_PIXELINFO"])
      [] o.opt = "X" ->
            LET sizes == MultiWindowTokens(o.xs, 1, <<>>)
            IN  IF sizes = <<>> THEN Exit(1, g)
                ELSE Continue([g EXCEPT !.programMode = "OUT_VARIABLE_MULTIW",
                                        !.multiWindowSize = sizes])
      [] o.opt = "O" ->
            IF o.name \notin DOMAIN pmodes THEN Exit(1, g)
            ELSE Continue([g EXCEPT !.programMode = pmodes[o.name]])
      [] o.opt = "w" ->
            IF o.n < 1 \/ o.n > windowSizeLimit THEN Exit(1, g)
            ELSE Continue([g EXCEPT !.windowSize = o.n])
      [] o.opt = "k" ->
            IF o.q[1] < 0 THEN Exit(1, g) ELSE Continue([g EXCEPT !.kParam = o.q])
      [] o.opt = "r" ->
            IF o.q[1] <= 0 THEN Exit(1, g) ELSE Continue([g EXCEPT !.rScale = o.q])
      [] o.opt = "t" ->
            IF o.q[1] <= 0 THEN Exit(1, g) ELSE Continue([g EXCEPT !.tScale = o.q])
      [] o.opt = "b" -> Continue([g EXCEPT !.tBias = o.q])
      [] OTHER -> Exit(1, g)

\* RScaleTooSmall for -V only
RScaleTooSmall_NotComposite(g) ==
    g.programMode = "OUT_VARIABLE" /\ g.rScale[1] < g.rScale[2]

\* if (rScale < 1) after the loop, for the variable output types
RScaleTooSmall(g) == oVariable(g) /\ g.rScale[1] < g.rScale[2]

\* argparse() after the option loop
ArgparseFinish(g) ==
    IF RScaleTooSmall(g) THEN Exit(1, g)
    ELSE IF g.programMode = "OUT_VARIABLE_MULTIW"
    THEN IF Len(g.multiWindowSize) = 0 THEN Exit(1, g)
         ELSE Continue([g EXCEPT !.multiWindowSize = FillToThree(g.multiWindowSize),
                                 !.windowSize = MaxOf(FillToThree(g.multiWindowSize))])
    ELSE Continue([g EXCEPT !.multiWindowSize = <<g.windowSize>>])

Options ==
    {Flag("h"), Flag("v"), Flag("T"), Flag("V")}
        \cup {Option("O", 0, Zero, <<>>, name) : name \in {"multiw", "bin"}}
        \cup {Option("w", n, Zero, <<>>, "") :
                 n \in {0, 1, 2, windowSizeLimit, windowSizeLimit + 1}}
        \cup {Option("X", 0, Zero, xs, "") :
                 xs \in {<<2>>, <<2, 1>>, <<1, 3, 2>>, <<1, 2, 3, 4>>, <<2, 0>>}}
        \cup {Option("k", 0, <<-1, 10>>, <<>>, "")}
        \cup {Option("r", 0, q, <<>>, "") : q \in {Zero, <<1, 2>>, <<2, 1>>}}
        \cup {Option("t", 0, Zero, <<>>, ""), Option("b", 0, <<1, 5>>, <<>>, "")}

RECURSIVE ArgLists(_)
ArgLists(n) ==
    IF n = 0 THEN {<<>>}
    ELSE ArgLists(n - 1) \cup {Append(a, o) : a \in ArgLists(n - 1), o \in Options}

InitArgparse ==
    /\ pc = "argparse"
    /\ cfg = DefaultGlobals
    /\ argv \in ArgLists(MaxArgs)
    /\ optind = 1
    /\ img = Gradient
    /\ nanByte \in UBSamples
    /\ c = 0
    /\ stats = <<>>
    /\ threshold = <<>>
    /\ dst = <<>>
    /\ realdst = <<>>
    /\ ub = {}
    /\ written = <<>>
    /\ mask = <<>> /\ bg = <<>> /\ iter = 0 /\ ret = "none" /\ out = <<>>

\* one turn of the getopt_long loop
ArgparseOption ==
    /\ pc = "argparse"
    /\ optind <= Len(argv)
    /\ LET r == ArgparseCase(cfg, argv[optind])
       IN  /\ pc' = r.status
           /\ cfg' = r.g
           /\ optind' = IF r.status = "argparse" THEN optind + 1 ELSE optind
    /\ UNCHANGED <<img, ub, nanByte, written, sauvolaVars, isoVars, argv>>

\* the end of argparse(), then the loading of the image in main(); main() is
\* followed for the windows up to MaxWindow and for those its size test refuses
ArgparseEnd ==
    /\ pc = "argparse"
    /\ optind = Len(argv) + 1
    /\ LET r == ArgparseFinish(cfg)
       IN  /\ cfg' = r.g
           /\ pc' = IF r.status = "exit1" THEN "exit1"
                    ELSE IF r.g.windowSize <= MaxWindow THEN "check"
                    ELSE IF PaddedSizeTooBig(ImgW, ImgH, r.g.windowSize) THEN "check"
                    ELSE "accepted"
    /\ UNCHANGED <<img, ub, nanByte, written, sauvolaVars, isoVars, argVars>>

NextArgparse ==
    ArgparseOption \/ ArgparseEnd \/ SauvolaCheck \/ SauvolaWindow \/ SauvolaWrite

SpecArgparse == InitArgparse /\ [][NextArgparse]_vars

---------------------------------------------------------------------------
(* Claims about binarize-sauvola.                                          *)

RECURSIVE SumOver(_, _)
SumOver(f, S) ==
    IF S = {} THEN 0
    ELSE LET e == CHOOSE e \in S : TRUE
         IN  f[e] + SumOver(f, S \ {e})

\* the offsets of a window around its pixel on one axis
BlockOffsets(wsize) == -((wsize + 1) \div 2 - 1) .. (wsize \div 2)

\* the sum (of squares, with sq) of the replicate-padded samples of the block of p
DirectSum(im, wsize, p, sq) ==
    LET D == BlockOffsets(wsize) \X BlockOffsets(wsize)
    IN  SumOver([d \in D |->
                    LET v == im[<<Clamp(p[1] + d[1], 0, ImgH - 1),
                                  Clamp(p[2] + d[2], 0, ImgW - 1)>>]
                    IN  IF sq THEN v * v ELSE v], D)

\* the window of the pass that ran last
LastWindow == cfg.multiWindowSize[c]

Uniform(im) == \A p, q \in Pos : im[p] = im[q]

\* C1: after a window pass, total1 and total2 of every pixel are the direct sums
\* (of the samples, of their squares) over the wsize x wsize block of the
\* replicate-padded image that holds the pixel and reaches ceil(wsize/2)-1 samples
\* before it and floor(wsize/2) after it, so mean = total1 / wsize^2 is the
\* arithmetic mean of the block.
C1_FourCornerIsBlockSum ==
    (c > 0) =>
        /\ Cardinality(BlockOffsets(LastWindow) \X BlockOffsets(LastWindow))
               = LastWindow * LastWindow
        /\ \A p \in Pos :
               /\ stats[p].total1 = DirectSum(img, LastWindow, p, FALSE)
               /\ stats[p].total2 = DirectSum(img, LastWindow, p, TRUE)

C1_Witness ==
    /\ c > 0
    /\ LastWindow = 3
    /\ ~Uniform(img)
    /\ \E p, q \in Pos : stats[p].total1 # stats[q].total1
    /\ \A p \in Pos : stats[p].total1 = DirectSum(img, LastWindow, p, FALSE)

\* C2 (as claimed): under OUT_BINARY the output is 255 exactly when the centre
\* intensity is strictly greater than the real-valued threshold, 0 otherwise.
C2_BinaryIsRealComparison ==
    (c > 0 /\ cfg.programMode = "OUT_BINARY") =>
        \A p \in Pos :
            dst[p] = IF ~ThresholdGeq(Centre(img, LastWindow, p), stats[p].total1,
                                      stats[p].total2, LastWindow, cfg)
                     THEN 255 ELSE 0

\* the parameters of the scenario: window 4, K = 0.4, R-scale 1, scale 1, bias 0
ScenarioCfg == SauvolaArgs("OUT_BINARY", 4, <<>>, <<2, 5>>, <<1, 1>>, <<1, 1>>, <<0, 1>>)

\* C4 (as claimed): for a uniform image under the scenario's parameters every
\* threshold equals the window mean and the binary output is 0 everywhere.
C4_UniformThresholdIsMean ==
    (c > 0 /\ cfg = ScenarioCfg /\ Uniform(img)) =>
        \A p \in Pos : threshold[p] = img[p] /\ dst[p] = 0

\* C4 (amended): for a uniform image of value v under the scenario's parameters
\* the window mean is v, the threshold of every pixel is trunc(v * (1 - K)) =
\* trunc(0.6 v) (76 for v = 128), and the binary output is 255 at every pixel
\* when v >= 1 and 0 when v = 0.
C4_UniformThresholdIsScaledMean ==
    (c > 0 /\ cfg = ScenarioCfg /\ Uniform(img)) =>
        \A p \in Pos :
            /\ stats[p].total1 = img[p] * 16
            /\ threshold[p] = (3 * img[p]) \div 5
            /\ dst[p] = IF img[p] >= 1 THEN 255 ELSE 0

C4_Witness ==
    /\ pc = "done"
    /\ cfg = ScenarioCfg
    /\ \A p \in Pos : img[p] = 128 /\ threshold[p] = 76 /\ written[p] = 255

\* a run of the Binary or ThresholdMap policy with K = 0, a window done
K0Run ==
    /\ c > 0
    /\ cfg.programMode \in {"OUT_BINARY", "OUT_THRESHOLD"}
    /\ cfg.kParam[1] = 0

\* C15 (as claimed): with K = 0 the threshold of every pixel equals
\* tScale * mean + tBias, and is the same for windows of equal mean, whatever
\* their standard deviations.
C15_K0ThresholdIsScaledMeanPlusBias ==
    K0Run =>
        LET w2 == Sq(cfg.multiWindowSize[c])
            ts == cfg.tScale
            b  == cfg.tBias
        IN  /\ \A p \in Pos :
                   threshold[p] * (ts[2] * w2 * b[2])
                       = ts[1] * stats[p].total1 * b[2] + b[1] * ts[2] * w2
            /\ \A p, q \in Pos :
                   (stats[p].total1 = stats[q].total1) => threshold[p] = threshold[q]

\* C16 (as claimed): on a uniform image of value v, every window size and
\* every pixel give mean = v and stddev = 0.
C16_UniformStatsAreExact ==
    (c > 0 /\ Uniform(img)) =>
        \A p \in Pos : /\ stats[p].mean = DFromInt(img[p])
                       /\ ~stats[p].nan
                       /\ stats[p].stddev = DFromInt(0)

\* C17 (as claimed): whenever R-scale >= 1 the bounds of the Variable policy
\* satisfy th0 <= th1 at every pixel, the standard deviation of the window
\* being a number that does not exceed R = R-scale * 127.5.
C17_VariableBoundsAreOrdered ==
    (c > 0 /\ oVariable(cfg) /\ cfg.rScale[1] >= cfg.rScale[2]) =>
        \A p \in Pos :
            /\ ~stats[p].nan
            /\ ~DLess(DoubleRParam(cfg), stats[p].stddev)
            /\ ~DLess(stats[p].th1, stats[p].th0)

\* the sizes of the last -X option of the command line
GivenSizes ==
    LET I == {i \in 1 .. Len(argv) : argv[i].opt = "X"}
    IN  argv[CHOOSE i \in I : \A j \in I : j <= i].xs

\* Mat dst of a variable-output pass over the image with window wsize
VariableResult(wsize) ==
    WindowDst(img, WindowStats(img, wsize), <<>>, wsize, cfg, nanByte)

Composite == cfg.programMode = "OUT_VARIABLE_MULTIW"

\* C18: with -X and one to three sizes, the image written has in its red
\* channel (index 2 of a BGR pixel) the variable result of the first size, in
\* green that of the second (of the first if there is one size) and in blue that
\* of the last size given; while the windows run, the channel of a pixel is
\* written if and only if its window has run; an -X list of more than three
\* sizes ends argparse() with exit status 1.
C18_CompositeChannelsAreTheWindowsResults ==
    /\ (pc = "done" /\ Composite) =>
           LET xs == GivenSizes
               n  == Len(xs)
               R  == VariableResult(xs[1])
               G  == VariableResult(xs[IF n = 1 THEN 1 ELSE 2])
               B  == VariableResult(xs[n])
           IN  /\ n \in 1 .. 3
               /\ \A p \in Pos : written[p] = <<B[p], G[p], R[p]>>
    /\ (pc = "window" /\ Composite) =>
           \A p \in Pos : \A ch \in 1 .. 3 : (realdst[p][ch] # Uninit) <=> (3 - ch < c)
    /\ \A i \in 1 .. Len(argv) :
           (argv[i].opt = "X" /\ Len(argv[i].xs) > 3) =>
               /\ optind <= i
               /\ (optind = i /\ pc # "argparse") => pc = "exit1"

\* a composite of two sizes is written whose red and green channels differ at a
\* pixel and whose green and blue channels agree at a pixel
C18_Witness ==
    /\ pc = "done" /\ Composite /\ Len(GivenSizes) = 2
    /\ \E p \in Pos : written[p][3] # written[p][2]
    /\ \E p \in Pos : written[p][2] = written[p][1]

\* an option whose value is outside what the usage allows
BadValue(o) ==
    \/ o.opt = "w" /\ o.n \notin 1 .. 16843009
    \/ o.opt = "X" /\ \E i \in 1 .. Len(o.xs) : o.xs[i] \notin 1 .. 16843009
    \/ o.opt = "k" /\ o.q[1] < 0
    \/ o.opt = "r" /\ o.q[1] <= 0
    \/ o.opt = "t" /\ o.q[1] <= 0

\* the output policy the command line selects last, and its last R scale
PolicyOptions ==
    {i \in 1 .. Len(argv) :
        argv[i].opt \in {"T", "V", "P", "X"}
            \/ (argv[i].opt = "O" /\ argv[i].name \in DOMAIN pmodes)}

FinalPolicy ==
    IF PolicyOptions = {} THEN "OUT_BINARY"
    ELSE LET o == argv[CHOOSE i \in PolicyOptions : \A j \in PolicyOptions : j <= i]
         IN  CASE o.opt = "T" -> "OUT_THRESHOLD"
               [] o.opt = "V" -> "OUT_VARIABLE"
               [] o.opt = "P" -> "OUT_PIXELINFO"
               [] o.opt = "X" -> "OUT_VARIABLE_MULTIW"
               [] OTHER -> pmodes[o.name]

FinalRScale ==
    LET I == {i \in 1 .. Len(argv) : argv[i].opt = "r"}
    IN  IF I = {} THEN One ELSE argv[CHOOSE i \in I : \A j \in I : j <= i].q

Rejectable ==
    \/ \E i \in 1 .. Len(argv) : BadValue(argv[i])
    \/ /\ FinalPolicy \in {"OUT_VARIABLE", "OUT_VARIABLE_MULTIW"}
       /\ FinalRScale[1] < FinalRScale[2]

NothingComputed ==
    c = 0 /\ stats = <<>> /\ dst = <<>> /\ realdst = <<>> /\ written = <<>>

\* C19 (as claimed): a command line with a -w or -X size outside
\* 1..16843009, K < 0, R scale <= 0, threshold scale <= 0, or R scale < 1 with
\* the variable or composite policy selected last, ends with exit status 1 before
\* the image is loaded.
C19_BadCommandLineExitsOne ==
    (Rejectable /\ pc # "argparse") => (pc = "exit1" /\ NothingComputed)

\* C19: the same, unless the option loop met -h or -v first, which end the run
\* with exit status 0; in both cases nothing is loaded or computed.
C19_BadCommandLineExitsOneUnlessHelp ==
    /\ (Rejectable /\ pc \notin {"argparse", "exit0"}) => pc = "exit1"
    /\ pc \in {"exit0", "exit1"} => NothingComputed

\* -r below 1 came before -V, all values being allowed, and the run was refused
\* after the option loop
C19_Witness ==
    /\ pc = "exit1" /\ optind = Len(argv) + 1
    /\ \A i \in 1 .. Len(argv) : ~BadValue(argv[i])
    /\ \E i, j \in 1 .. Len(argv) : i < j /\ argv[i].opt = "r" /\ argv[j].opt = "V"

\* the sum (of squares, with sq) of the padded samples of rows Ys and columns Xs
PrefixSum(wsize, sq, Ys, Xs) ==
    SumOver([q \in Ys \X Xs |->
                LET v == PadAt(img, wsize, q[1], q[2]) IN IF sq THEN v * v ELSE v],
            Ys \X Xs)

\* C21 (as claimed): each integral grid is one cell larger than the padded
\* image in each dimension and its cell (y, x) holds the sum (for the second
\* grid, of the squares) of the padded samples with row < y and column < x, so
\* that row 0 and column 0 are 0.
C21_GridIsExclusivePrefixSum ==
    (c > 0) =>
        \A sq \in BOOLEAN :
            LET buf == Integral(img, LastWindow, sq)
                pw  == ImgW + LastWindow
                ph  == ImgH + LastWindow
            IN  /\ DOMAIN buf = 0 .. (pw + 1) * (ph + 1) - 1
                /\ \A y \in 0 .. ph : \A x \in 0 .. pw :
                       buf[(pw + 1) * y + x]
                           = PrefixSum(LastWindow, sq, 0 .. y - 1, 0 .. x - 1)

\* C21: each integral grid has the size of the padded image, (w + wsize) by
\* (h + wsize), and its cell (y, x) holds the sum (of the squares) of the padded
\* samples with row <= y and column <= x; no row or column of zeros is kept.
C21_GridIsInclusivePrefixSum ==
    (c > 0) =>
        \A sq \in BOOLEAN :
            LET buf == Integral(img, LastWindow, sq)
                pw  == ImgW + LastWindow
                ph  == ImgH + LastWindow
            IN  /\ DOMAIN buf = 0 .. pw * ph - 1
                /\ \A y \in 0 .. ph - 1 : \A x \in 0 .. pw - 1 :
                       buf[pw * y + x] = PrefixSum(LastWindow, sq, 0 .. y, 0 .. x)

\* a pass with an even window over an image that is not uniform, whose first
\* cell is not 0 and whose last cell is the sum of the whole padded image
C21_Witness ==
    /\ c > 0 /\ LastWindow = 2 /\ ~Uniform(img)
    /\ LET buf == Integral(img, LastWindow, FALSE)
           pw  == ImgW + LastWindow
           ph  == ImgH + LastWindow
       IN  /\ buf[0] > 0
           /\ buf[pw * ph - 1] = PrefixSum(LastWindow, FALSE, 0 .. ph - 1, 0 .. pw - 1)
           /\ buf[pw * ph - 1] > buf[pw * ph - 2]

\* C5 (as claimed): under the variable policies the rescaling is never evaluated
\* with th1 - th0 = 0 and every sample is a well-defined integer in 0 .. 255.
C5_VariableNeverDividesByZero ==
    (c > 0 /\ oVariable(cfg)) =>
        /\ ub = {}
        /\ \A p \in Pos : dst[p] \in 0 .. 255

\* C6 (as claimed): under OUT_THRESHOLD the sample is the threshold clamped to
\* 0 .. 255.
C6_ThresholdMapClamps ==
    (c > 0 /\ cfg.programMode = "OUT_THRESHOLD") =>
        \A p \in Pos : dst[p] = Clamp(threshold[p], 0, 255)

---------------------------------------------------------------------------
(* isolate-bg (unnamed/part_003).  A Mat of 8-bit samples is a function    *)
(* from positions to the tuple of the pixel's channels (<<v>> or           *)
(* <<b, g, r>>); a mask and the grayscale input of the binarizer are       *)
(* functions from positions to one sample.  A CV_32F sample is kept in     *)
(* fixed point, FxOne units to one grey level, so that the conversions to  *)
(* float and back are conversions here too.                                *)

integralWindowSizeLimit == 16843009

InitModes == {"ISOBG_INPAINT_INIT_MEAN", "ISOBG_INPAINT_INIT_NEIGHBOR_L1"}

IsoModes == {"OUT_NORMALIZED_IMAGE", "OUT_BACKGROUND"}

\* the option values argparse() leaves; a double is kept as <<num, den>>
IsoArgs(mode, gray, adjust, wsize, k, r, imode, iters, d1, d2, blur, alpha) ==
    [programMode |-> mode, inputAsGrayscale |-> gray, adjustBrightness |-> adjust,
     integralWindowSize |-> wsize, kParam |-> k, rScale |-> r,
     inpaintInitMode |-> imode, inpaintIterations |-> iters,
     maskDenoiseDistance1 |-> d1, maskDenoiseDistance2 |-> d2,
     backgroundBlur |-> blur, backgroundAlpha |-> alpha]

\* the checks of argparse(): the option values it accepts
IsoArgsOk(cf) ==
    /\ cf.programMode \in IsoModes
    /\ cf.integralWindowSize >= 1
    /\ cf.integralWindowSize <= integralWindowSizeLimit
    /\ cf.kParam[1] >= 0
    /\ cf.rScale[1] > 0
    /\ cf.inpaintInitMode \in InitModes
    /\ cf.inpaintIterations >= 0
    /\ cf.maskDenoiseDistance1[1] >= 0
    /\ cf.maskDenoiseDistance2[1] >= 0
    /\ cf.backgroundBlur >= 1
    /\ cf.backgroundBlur % 2 = 1
    /\ cf.backgroundAlpha[1] >= 0
    /\ cf.backgroundAlpha[1] <= cf.backgroundAlpha[2]

\* img.channels()
Channels(im) == Len(im[<<0, 0>>])

\* cvtColor(.., CV_BGR2GRAY) of one 8-bit pixel <<b, g, r>>
BGR2GRAY(v) == (v[1] * 1868 + v[2] * 9617 + v[3] * 4899 + 8192) \div 16384

\* tmp2 of main(): the one-channel image the binarizer reads
GrayOf(im) ==
    [p \in Pos |-> IF Channels(im) = 3 THEN BGR2GRAY(im[p]) ELSE im[p][1]]

\* the size test of binarizeUsingSauvola, which makes it return false
IsoSizeTooBig(w, h, wsize) ==
    \/ w = 0
    \/ h = 0
    \/ IntMax - wsize < w
    \/ IntMax - wsize < h
    \/ IntMax \div (w + wsize) < h + wsize

\* binarizeUsingSauvola has no threshold scale and no bias
IsoSauvolaParams(cf) ==
    [kParam |-> cf.kParam, rScale |-> cf.rScale, tScale |-> One, tBias |-> Zero]

\* Mat dst of binarizeUsingSauvola: 255 where the pixel exceeds int threshold
binarizeUsingSauvola(src, cf) ==
    LET wsize == cf.integralWindowSize
        st    == WindowStats(src, wsize)
    IN  [p \in Pos |->
            IF Centre(src, wsize, p)
                   > ThresholdInt(st[p].total1, st[p].total2, wsize, IsoSauvolaParams(cf))
            THEN 255 ELSE 0]

maskInvert(m) == [p \in Pos |-> 255 - m[p]]

\* the square of the L2 distance of two pixels
SqDist(p, q) == (p[1] - q[1]) * (p[1] - q[1]) + (p[2] - q[2]) * (p[2] - q[2])

\* tmp.at<float>(y, x) <= width, tmp being the precise L2 distance transform:
\* some zero pixel lies within width.  Without any zero pixel the transform
\* gives a distance beyond the image, taken here to exceed every width tried.
DistWithin(m, p, width) ==
    \E q \in Pos : /\ m[q] = 0
                   /\ SqDist(p, q) * width[2] * width[2] <= width[1] * width[1]

maskInset(m, width) == [p \in Pos |-> IF DistWithin(m, p, width) THEN 0 ELSE 255]

\* RefineMask with the two distances exchanged
RefineMask_Swapped(m, cf) ==
    maskInvert(maskInset(maskInvert(maskInset(maskInvert(m),
        cf.maskDenoiseDistance2)), cf.maskDenoiseDistance1))

\* main(): the five mask operations between the binarizer and fastInpaint
RefineMask(m, cf) ==
    maskInvert(maskInset(maskInvert(maskInset(maskInvert(m),
        cf.maskDenoiseDistance1)), cf.maskDenoiseDistance2))

---------------------------------------------------------------------------
(* isolate-bg: fastInpaint (unnamed/part_003 393-544).                     *)

\* pixel number i of the row-major loops "for y .. for x"
Raster(i) == <<i \div ImgW, i % ImgW>>

NPixels == ImgW * ImgH

\* !mask.at<unsigned char>(y, x)
Unmasked(m) == {p \in Pos : m[p] = 0}

\* totalR / totalG / totalB: the sum of one channel over the unmasked pixels
RECURSIVE ChannelTotal(_, _, _, _)
ChannelTotal(src, m, ch, i) ==
    IF i = NPixels THEN 0
    ELSE (IF m[Raster(i)] = 0 THEN src[Raster(i)][ch] ELSE 0)
             + ChannelTotal(src, m, ch, i + 1)

\* ISOBG_INPAINT_INIT_MEAN with pixels > 0: unsigned char mean = total / pixels
MeanFill(src, m) ==
    LET pixels == Cardinality(Unmasked(m))
        mean   == [ch \in 1 .. Channels(src) |->
                      ToUchar(ChannelTotal(src, m, ch, 0) \div pixels)]
    IN  [p \in Pos |-> IF m[p] # 0 THEN mean ELSE src[p]]

\* Candidates with the second and the third place exchanged
Candidates_Swapped(x, y, d, k) ==
    <<<<y - d + k, x + k>>, <<y + d - k, x - k>>,
      <<y + k, x + d - k>>, <<y - k, x - d + k>>>>

\* the four places <<Y, X>> SUBCODE tries for one k of ring d, in its order
Candidates(x, y, d, k) ==
    <<<<y - d + k, x + k>>, <<y + k, x + d - k>>,
      <<y + d - k, x - k>>, <<y - k, x - d + k>>>>

\* X >= 0 && X < w && Y >= 0 && Y < h && !mask.at<unsigned char>(Y, X)
Usable(m, q) == q \in Pos /\ m[q] = 0

\* the loops "for d" and "for k" of SUBCODE from (d, k) on: the place found
RECURSIVE RingSearch(_, _, _, _)
RingSearch(m, p, d, k) ==
    LET cand == Candidates(p[2], p[1], d, k)
        hits == {j \in 1 .. 4 : Usable(m, cand[j])}
    IN  IF hits # {} THEN cand[CHOOSE j \in hits : \A i \in hits : j <= i]
        ELSE IF k + 1 < d THEN RingSearch(m, p, d, k + 1)
        ELSE RingSearch(m, p, d + 1, 0)

\* SUBCODE from pixel number i on: dst.at(y, x) = dst.at(Y, X) for masked pixels
RECURSIVE NeighborFillFrom(_, _, _)
NeighborFillFrom(d, m, i) ==
    IF i = NPixels THEN d
    ELSE IF m[Raster(i)] # 0
         THEN NeighborFillFrom(
                  [d EXCEPT ![Raster(i)] = d[RingSearch(m, Raster(i), 1, 0)]], m, i + 1)
         ELSE NeighborFillFrom(d, m, i + 1)

\* ISOBG_INPAINT_INIT_NEIGHBOR_L1 with an unmasked pixel, on dst = src.clone()
NeighborFill(src, m) == NeighborFillFrom(src, m, 0)

\* InitFails giving up as soon as some pixel is masked
InitFails_AnyMasked(m) == Unmasked(m) # Pos

\* "if (!pixels) return false" and "if (!pixelExists) return false"
InitFails(m) == Unmasked(m) = {}

\* dst after the switch on initMode
InitFill(src, m, imode) ==
    IF imode = "ISOBG_INPAINT_INIT_MEAN" THEN MeanFill(src, m) ELSE NeighborFill(src, m)

\* fixed-point units of a float sample per grey level
FxOne == 32

\* dst.convertTo(dst, CV_32F or CV_32FC3)
ToFloat(im) == [p \in Pos |-> [ch \in 1 .. Channels(im) |-> im[p][ch] * FxOne]]

\* the kernel a, b, a, b, 0, b, a, b, a in units of 1 / KDen
KA == 14647
KB == 35353
KDen == 200000
kernel == <<<<KA, KB, KA>>, <<KB, 0, KB>>, <<KA, KB, KA>>>>

\* n / d rounded to the nearest integer, for n >= 0 and an even d
RoundDiv(n, d) == (n + d \div 2) \div d

\* BORDER_REPLICATE: the sample (y, x) of the image extended by its border
Replicate(f, y, x) == f[<<Clamp(y, 0, ImgH - 1), Clamp(x, 0, ImgW - 1)>>]

\* one sample of the correlation with a 3x3 kernel anchored at its centre
Correlate3(f, kern, p, ch) ==
    LET row(i) == kern[i][1] * Replicate(f, p[1] + i - 2, p[2] - 1)[ch]
                      + kern[i][2] * Replicate(f, p[1] + i - 2, p[2])[ch]
                      + kern[i][3] * Replicate(f, p[1] + i - 2, p[2] + 1)[ch]
    IN  row(1) + row(2) + row(3)

\* filter2D(dst, tmp, -1, kernel, Point(1, 1), 0, BORDER_REPLICATE)
filter2D(f) ==
    [p \in Pos |-> [ch \in 1 .. Channels(f) |->
        RoundDiv(Correlate3(f, kernel, p, ch), KDen)]]

\* one turn of the diffusion loop done in place, pixel after pixel from number
\* i on, so that a pixel sees the neighbours already replaced in this turn
RECURSIVE DiffuseOnce_InPlace_From(_, _, _)
DiffuseOnce_InPlace_From(d, m, i) ==
    IF i = NPixels THEN d
    ELSE IF m[Raster(i)] # 0
         THEN DiffuseOnce_InPlace_From(
                  [d EXCEPT ![Raster(i)] = filter2D(d)[Raster(i)]], m, i + 1)
         ELSE DiffuseOnce_InPlace_From(d, m, i + 1)

DiffuseOnce_InPlace(d, m) == DiffuseOnce_InPlace_From(d, m, 0)

\* one turn of the diffusion loop with the test of the mask left out
DiffuseOnce_Unmasked(d, m) == filter2D(d)

\* one turn of the diffusion loop: filter2D into tmp, then the masked pixels
\* of dst are replaced by those of tmp
DiffuseOnce(d, m) ==
    LET tmp == filter2D(d)
    IN  [p \in Pos |-> IF m[p] # 0 THEN tmp[p] ELSE d[p]]

\* cvRound of n / d for n >= 0: to the nearest integer, a tie to the even one
RoundHalfEven(n, d) ==
    LET q == n \div d
        r == n % d
    IN  IF 2 * r < d THEN q
        ELSE IF 2 * r > d THEN q + 1
        ELSE IF q % 2 = 0 THEN q ELSE q + 1

\* dst.convertTo(dst, CV_8U or CV_8UC3): rounded and saturated
To8U(f) ==
    [p \in Pos |-> [ch \in 1 .. Channels(f) |->
        Clamp(RoundHalfEven(f[p][ch], FxOne), 0, 255)]]

---------------------------------------------------------------------------
(* isolate-bg: the stages of main() after fastInpaint.                     *)

\* the 3x3 kernel of GaussianBlur for size 3 and sigma 0, in sixteenths
blur3 == <<<<1, 2, 1>>, <<2, 4, 2>>, <<1, 2, 1>>>>

\* GaussianBlur(bg, bg, Size(3, 3), 0.0, 0.0, BORDER_REPLICATE) on 8-bit samples
GaussianBlur3(b) ==
    [p \in Pos |-> [ch \in 1 .. Channels(b) |->
        (Correlate3(b, blur3, p, ch) + 8) \div 16]]

\* "if (backgroundBlur != 1) GaussianBlur(..)"; the sizes tried are 1 and 3
BlurStage(b, cf) == IF cf.backgroundBlur # 1 THEN GaussianBlur3(b) ELSE b

\* backgroundAlpha * vI / vB is a NaN: 0 / 0
NormIsNaN(vI, vB, alpha) == vB = 0 /\ alpha[1] * vI = 0

\* min(max(backgroundAlpha * vI / vB, 0.0), 1.0) * 255.0 stored to unsigned
\* char: x / 0 with x > 0 is +infinity and gives 255, a NaN stays a NaN and
\* its conversion is undefined
NormSample(vI, vB, alpha, nan) ==
    IF vB = 0 THEN (IF alpha[1] * vI = 0 THEN nan ELSE 255)
    ELSE IF alpha[1] * vI >= alpha[2] * vB THEN 255
    ELSE (255 * alpha[1] * vI) \div (alpha[2] * vB)

\* case OUT_NORMALIZED_IMAGE
Normalize(im, b, alpha, nan) ==
    [p \in Pos |-> [ch \in 1 .. Channels(im) |->
        NormSample(im[p][ch], b[p][ch], alpha, nan)]]

\* the samples whose normalisation converts a NaN
NormNaNs(im, b, alpha) ==
    {<<p, ch>> \in Pos \X (1 .. Channels(im)) : NormIsNaN(im[p][ch], b[p][ch], alpha)}

\* the switch on programMode
OutputStage(im, b, cf, nan) ==
    IF cf.programMode = "OUT_NORMALIZED_IMAGE"
    THEN Normalize(im, b, cf.backgroundAlpha, nan)
    ELSE b

\* Emin and Emax: the least and the greatest sample of the grayscale of img
Emin(im) == CHOOSE v \in {GrayOf(im)[p] : p \in Pos} : \A q \in Pos : v <= GrayOf(im)[q]
Emax(im) == CHOOSE v \in {GrayOf(im)[p] : p \in Pos} : \A q \in Pos : v >= GrayOf(im)[q]

\* double Escale = 255.0 / (Emax - Emin); (v - Emin) * Escale stored to
\* unsigned char, in binary64; three channels are clamped to 0.0 .. 255.0 first
\* (a channel may be below Emin, which is taken from the grayscale)
StretchSample(v, lo, hi, ch3) ==
    IF v < lo THEN 0
    ELSE LET Escale == DDiv(DFromInt(255), DFromInt(hi - lo))
             vR     == DToInt(DMul(DFromInt(v - lo), Escale))
         IN  IF ch3 THEN Min(vR, 255) ELSE ToUchar(vR)

\* "if (adjustBrightness)"
StretchStage(im, cf) ==
    IF cf.adjustBrightness /\ Emin(im) < Emax(im)
    THEN [p \in Pos |-> [ch \in 1 .. Channels(im) |->
             StretchSample(im[p][ch], Emin(im), Emax(im), Channels(im) = 3)]]
    ELSE im

---------------------------------------------------------------------------
(* isolate-bg: inputs and the steps of main() and of fastInpaint.          *)

MaxIter == 2

\* images whose pixels all differ, of one and of three channels
RampGray == [p \in Pos |-> <<10 + 40 * p[1] + 10 * p[2]>>]
RampColour ==
    [p \in Pos |-> <<10 + 40 * p[1] + 10 * p[2], 200 - 30 * p[1] - 7 * p[2],
                     5 + 3 * p[1] + 60 * p[2]>>]

ColourLevels ==
    {<<<<0, 0, 0>>, <<255, 255, 255>>>>, <<<<250, 240, 230>>, <<10, 200, 90>>>>}

ColourImages ==
    {[p \in Pos |-> IF p \in S THEN lv[1] ELSE lv[2]] :
        S \in {{}, {<<0, 0>>}, {p \in Pos : p[1] = 0}}, lv \in ColourLevels}
    \cup {RampColour}

\* masked regions tried: the shapes above and the corner triangles, and
\* the complements of both
MaskShapes ==
    Shapes \cup {{p \in Pos : p[1] + p[2] < n} : n \in 1 .. ImgW + ImgH - 2}

IsoImages ==
    {[p \in Pos |-> <<g[p]>>] : g \in GrayImages} \cup {RampGray} \cup ColourImages
        \cup {[p \in Pos |-> <<IF p \in S THEN lv[1] ELSE lv[2]>>] :
                 S \in MaskShapes \ Shapes, lv \in Levels}

Masks ==
    {[p \in Pos |-> IF p \in S THEN 255 ELSE 0] : S \in MaskShapes}
        \cup {[p \in Pos |-> IF p \in S THEN 0 ELSE 255] : S \in MaskShapes}

InpaintSources ==
    {RampGray, RampColour, [p \in Pos |-> <<IF p = <<0, 0>> THEN 255 ELSE 0>>],
     [p \in Pos |-> IF p[2] = 0 THEN <<0, 128, 255>> ELSE <<201, 7, 64>>]}

\* option values tried: the defaults where the image size allows, and changes
IsoBase(mode, gray, adjust, imode, iters, d1, d2, blur, alpha) ==
    IsoArgs(mode, gray, adjust, 2, DefaultK, One, imode, iters, d1, d2, blur, alpha)

Distances == {<<0, 1>>, <<1, 1>>, <<3, 2>>, <<5, 1>>}

IsoConfigs ==
    {IsoBase(mode, FALSE, adjust, "ISOBG_INPAINT_INIT_NEIGHBOR_L1", 1, One, d2, blur, alpha) :
        mode \in IsoModes, adjust \in BOOLEAN, d2 \in {<<0, 1>>, <<5, 1>>},
        blur \in {1, 3}, alpha \in {<<9, 10>>, One}}
    \cup {IsoBase("OUT_NORMALIZED_IMAGE", gray, FALSE, imode, iters, d1, d2, 3, <<9, 10>>) :
        gray \in BOOLEAN, imode \in InitModes, iters \in {0, MaxIter},
        d1 \in Distances, d2 \in {<<0, 1>>, <<1, 1>>, <<3, 2>>}}
    \cup {IsoArgs("OUT_BACKGROUND", FALSE, FALSE, ws, k, r, "ISOBG_INPAINT_INIT_MEAN",
                  MaxIter, Zero, Zero, 1, One) :
        ws \in 1 .. MaxWindow, k \in {DefaultK, Zero, <<2, 1>>}, r \in {One, <<1, 2>>}}

InpaintConfigs ==
    {IsoBase("OUT_BACKGROUND", FALSE, FALSE, imode, iters, One, One, 1, One) :
        imode \in InitModes, iters \in 0 .. MaxIter}

InitIsoBg ==
    /\ pc = "load"
    /\ cfg \in {cf \in IsoConfigs : IsoArgsOk(cf)}
    /\ img \in {im \in IsoImages : cfg.inputAsGrayscale => Channels(im) = 3}
    /\ nanByte \in (IF cfg.programMode = "OUT_NORMALIZED_IMAGE" THEN UBSamples ELSE {0})
    /\ mask = <<>> /\ bg = <<>> /\ iter = 0 /\ ret = "none" /\ out = <<>>
    /\ argv = <<>> /\ optind = 1
    /\ ub = {}
    /\ written = <<>>
    /\ c = 0 /\ stats = <<>> /\ threshold = <<>> /\ dst = <<>> /\ realdst = <<>>

\* fastInpaint called with any image and any mask
InitInpaint ==
    /\ pc = "inpaint"
    /\ cfg \in {cf \in InpaintConfigs : IsoArgsOk(cf)}
    /\ img \in InpaintSources
    /\ mask \in Masks
    /\ nanByte = 0
    /\ bg = <<>> /\ iter = 0 /\ ret = "none" /\ out = <<>>
    /\ argv = <<>> /\ optind = 1
    /\ ub = {}
    /\ written = <<>>
    /\ c = 0 /\ stats = <<>> /\ threshold = <<>> /\ dst = <<>> /\ realdst = <<>>

\* imread, then "if (inputAsGrayscale) cvtColor(img, img, CV_BGR2GRAY)"
IsoLoad ==
    /\ pc = "load"
    /\ img' = IF cfg.inputAsGrayscale THEN [p \in Pos |-> <<GrayOf(img)[p]>>] ELSE img
    /\ pc' = "binarize"
    /\ UNCHANGED <<cfg, ub, nanByte, argVars, written, sauvolaVars, isoVars>>

\* binarizeUsingSauvola(tmp, tmp2, ..); its return value is not read.  When
\* it returns false tmp stays the empty Mat and main() goes on.
IsoBinarize ==
    /\ pc = "binarize"
    /\ IF IsoSizeTooBig(ImgW, ImgH, cfg.integralWindowSize)
       THEN UNCHANGED mask
       ELSE mask' = binarizeUsingSauvola(GrayOf(img), cfg)
    /\ pc' = "refine"
    /\ UNCHANGED <<cfg, img, ub, nanByte, argVars, written, sauvolaVars, bg, iter, ret, out>>

\* what fastInpaint may read as the mask from a Mat that has no data
UBMasks == {[p \in Pos |-> v] : v \in {0, 255}}

\* maskInvert, maskInset(dist1), maskInvert, maskInset(dist2), maskInvert.  On
\* the empty tmp the loops make no turn and distanceTransform (OpenCV) either
\* throws, which ends the run, or leaves tmp empty; fastInpaint then indexes a
\* Mat without data (undefined behaviour): the run ends there, or it reads some
\* mask.
IsoRefine ==
    /\ pc = "refine"
    /\ IF mask = <<>>
       THEN \/ pc' = "aborted" /\ UNCHANGED mask
            \/ pc' = "inpaint" /\ mask' \in UBMasks
       ELSE mask' = RefineMask(mask, cfg) /\ pc' = "inpaint"
    /\ UNCHANGED <<cfg, img, ub, nanByte, argVars, written, sauvolaVars, bg, iter, ret, out>>

\* fastInpaint up to the conversion to float: dst = src.clone(), then the
\* switch on initMode, which returns false when no pixel is unmasked
InpaintInit ==
    /\ pc = "inpaint"
    /\ IF InitFails(mask)
       THEN /\ bg' = img
            /\ ret' = "false"
            /\ pc' = "returned"
       ELSE /\ bg' = ToFloat(InitFill(img, mask, cfg.inpaintInitMode))
            /\ ret' = ret
            /\ pc' = "diffuse"
    /\ iter' = 0
    /\ UNCHANGED <<cfg, img, ub, nanByte, argVars, written, sauvolaVars, mask, out>>

\* one turn of "for (int i = 0; i < iterations; i++)"
DiffuseStep ==
    /\ pc = "diffuse"
    /\ iter < cfg.inpaintIterations
    /\ bg' = DiffuseOnce(bg, mask)
    /\ iter' = iter + 1
    /\ UNCHANGED <<pc, cfg, img, ub, nanByte, argVars, written, sauvolaVars, mask, ret, out>>

\* the loop is left: conversion back to 8 bits, return true
InpaintFinish ==
    /\ pc = "diffuse"
    /\ ~(iter < cfg.inpaintIterations)
    /\ bg' = To8U(bg)
    /\ ret' = "true"
    /\ pc' = "returned"
    /\ UNCHANGED <<cfg, img, ub, nanByte, argVars, written, sauvolaVars, mask, iter, out>>

\* main() goes on whatever fastInpaint returned: the blur of bg
IsoBlur ==
    /\ pc = "returned"
    /\ bg' = BlurStage(bg, cfg)
    /\ pc' = "output"
    /\ UNCHANGED <<cfg, img, ub, nanByte, argVars, written, sauvolaVars, mask, iter, ret, out>>

\* "switch (programMode)"
IsoOutput ==
    /\ pc = "output"
    /\ out' = OutputStage(img, bg, cfg, nanByte)
    /\ ub' = IF cfg.programMode = "OUT_NORMALIZED_IMAGE"
             THEN ub \cup NormNaNs(img, bg, cfg.backgroundAlpha)
             ELSE ub
    /\ pc' = "stretch"
    /\ UNCHANGED <<cfg, img, nanByte, argVars, written, sauvolaVars, mask, bg, iter, ret>>

\* "if (adjustBrightness)"
IsoStretch ==
    /\ pc = "stretch"
    /\ out' = StretchStage(out, cfg)
    /\ pc' = "write"
    /\ UNCHANGED <<cfg, img, ub, nanByte, argVars, written, sauvolaVars, mask, bg, iter, ret>>

\* imwrite(filename_out, img); return 0
IsoWrite ==
    /\ pc = "write"
    /\ written' = out
    /\ pc' = "done"
    /\ UNCHANGED <<cfg, img, ub, nanByte, argVars, sauvolaVars, isoVars>>

NextInpaint == InpaintInit \/ DiffuseStep \/ InpaintFinish

SpecInpaint == InitInpaint /\ [][NextInpaint]_vars

NextIsoBg ==
    \/ IsoLoad \/ IsoBinarize \/ IsoRefine
    \/ InpaintInit \/ DiffuseStep \/ InpaintFinish
    \/ IsoBlur \/ IsoOutput \/ IsoStretch \/ IsoWrite

SpecIsoBg == InitIsoBg /\ [][NextIsoBg]_vars

---------------------------------------------------------------------------
(* Both programs on windows that the image cannot be padded with, next to  *)
(* windows that it can.                                                    *)

\* the smallest window too big for an image of ImgW x ImgH, and the largest
\* window argparse() accepts
OversizeWindows ==
    {CHOOSE ws \in 46300 .. 46400 :
         /\ IsoSizeTooBig(ImgW, ImgH, ws)
         /\ ~IsoSizeTooBig(ImgW, ImgH, ws - 1),
     windowSizeLimit}

OversizeSauvolaConfigs ==
    {SauvolaArgs(mode, ws, <<>>, DefaultK, One, One, Zero) :
        mode \in {"OUT_BINARY", "OUT_VARIABLE"}, ws \in {2} \cup OversizeWindows}
    \cup {SauvolaArgs("OUT_VARIABLE_MULTIW", 2, <<2, ws>>, DefaultK, One, One, Zero) :
        ws \in {1} \cup OversizeWindows}

OversizeIsoConfigs ==
    {cf \in IsoConfigs : IsoArgsOk(cf)}
        \cup {[cf EXCEPT !.integralWindowSize = ws] :
                 cf \in {cf \in IsoConfigs : IsoArgsOk(cf)}, ws \in OversizeWindows}

InitOversize ==
    /\ \/ /\ pc = "check"
          /\ cfg \in OversizeSauvolaConfigs
          /\ img \in GrayImages
          /\ nanByte \in (IF oVariable(cfg) THEN UBSamples ELSE {0})
       \/ /\ pc = "load"
          /\ cfg \in OversizeIsoConfigs
          /\ img \in {im \in {RampGray, RampColour} : cfg.inputAsGrayscale => Channels(im) = 3}
          /\ nanByte \in (IF cfg.programMode = "OUT_NORMALIZED_IMAGE" THEN UBSamples ELSE {0})
    /\ mask = <<>> /\ bg = <<>> /\ iter = 0 /\ ret = "none" /\ out = <<>>
    /\ argv = <<>> /\ optind = 1
    /\ ub = {}
    /\ written = <<>>
    /\ c = 0 /\ stats = <<>> /\ threshold = <<>> /\ dst = <<>> /\ realdst = <<>>

NextOversize == NextSauvola \/ NextIsoBg

SpecOversize == InitOversize /\ [][NextOversize]_vars

\* the program that runs: only the options of isolate-bg have this field
IsIsolateBg == "integralWindowSize" \in DOMAIN cfg

RunWindow == IF IsIsolateBg THEN cfg.integralWindowSize ELSE cfg.windowSize

\* width or height plus the window, or the padded width times the padded
\* height, is more than the largest int
TooBigToPad ==
    \/ ImgW + RunWindow > IntMax
    \/ ImgH + RunWindow > IntMax
    \/ ~ProdLeq(<<ImgW + RunWindow, ImgH + RunWindow>>, <<IntMax>>)

\* C20: in both programs a run whose image is too big to pad fails at the size
\* test: it is before the test or has failed, no integral image was made, no
\* mask, background or output exists and nothing is written.
C20_OversizeRunFailsAtTheSizeTest ==
    TooBigToPad =>
        /\ pc \in {"check", "load", "binarize", "failed"}
        /\ NothingComputed
        /\ mask = <<>> /\ bg = <<>> /\ out = <<>>

---------------------------------------------------------------------------
(* The sizes and indices of the integral images for images of any size     *)
(* (README.md 350-427, part_003 321-380).  Here img is the size of Mat img  *)
(* and the value of its samples, all alike: [cols, rows, value].  An int    *)
(* expression is computed exactly; Wrapped stands for a signed overflow.    *)

Wrapped == -1

IntAdd(a, b) == IF a < 0 \/ b < 0 \/ a > IntMax - b THEN Wrapped ELSE a + b

IntMul(a, b) ==
    IF a < 0 \/ b < 0 \/ ~ProdLeq(<<a, b>>, <<IntMax>>) THEN Wrapped ELSE a * b

\* X modulo 2^64: what an intimage_type (uint_least64_t of 64 bits) keeps
Wrap64(X) == BigNorm(BigSub(X, BigShl(BigShr(BigNorm(X), 64), 64), 0))

\* the windows of the run and the test made before them
SizeWindows(cf) ==
    IF "integralWindowSize" \in DOMAIN cf THEN <<cf.integralWindowSize>>
    ELSE cf.multiWindowSize

SizeTooBig(w, h, cf) ==
    IF "integralWindowSize" \in DOMAIN cf THEN IsoSizeTooBig(w, h, cf.integralWindowSize)
    ELSE PaddedSizeTooBig(w, h, cf.windowSize)

\* the index expressions of the loops at the first and the last turn of each
\* loop: the writes buffer[x], buffer[pw * y + x], buffer[pw * (y - 1) + x] and
\* the reads at Y0 = pw * y, Y1 = pw * (y + wsize), columns x and x + wsize
GridIndices(w, h, wsize) ==
    LET pw == IntAdd(w, wsize)
        ph == IntAdd(h, wsize)
    IN  IF pw = Wrapped \/ ph = Wrapped THEN {Wrapped}
        ELSE
        {0, pw - 1}
        \cup {IntAdd(IntMul(pw, y), x) : y \in {1, ph - 1}, x \in {0, pw - 1}}
        \cup {IntAdd(IntMul(pw, y - 1), x) : y \in {1, ph - 1}, x \in {0, pw - 1}}
        \cup {IntAdd(IntMul(pw, y), x) : y \in {0, h - 1}, x \in {0, w - 1}}
        \cup {IntAdd(IntMul(pw, y), IntAdd(x, wsize)) : y \in {0, h - 1}, x \in {0, w - 1}}
        \cup {IntAdd(IntMul(pw, IntAdd(y, wsize)), x) : y \in {0, h - 1}, x \in {0, w - 1}}
        \cup {IntAdd(IntMul(pw, IntAdd(y, wsize)), IntAdd(x, wsize)) :
                 y \in {0, h - 1}, x \in {0, w - 1}}

\* what one window pass allocates and indexes, and the last cell of buffer1 and
\* buffer2 (their largest), exact and as the 64 bits keep it
GridOf(im, wsize) ==
    LET pw    == IntAdd(im.cols, wsize)
        ph    == IntAdd(im.rows, wsize)
        cells == BigMul(BigFromInt(Abs(pw)), BigFromInt(Abs(ph)))
        sum1  == BigNorm(BigMulSmall(cells, im.value, 0))
        sum2  == BigNorm(BigMulSmall(sum1, im.value, 0))
    IN  [wsize |-> wsize, pw |-> pw, ph |-> ph, alloc |-> IntMul(pw, ph),
         indices |-> GridIndices(im.cols, im.rows, wsize),
         sum1 |-> sum1, sum2 |-> sum2,
         last1 |-> Wrap64(sum1), last2 |-> Wrap64(sum2)]

SizeDims ==
    {1, 2, 3, 46338, 46339, 46340, 1073741822, 1073741823, IntMax - 1, IntMax}

SizeWindowSizes == {1, 2, 3, 46338, 46339, 46340, windowSizeLimit}

SizeConfigs ==
    {SauvolaArgs("OUT_BINARY", ws, <<>>, DefaultK, One, One, Zero) : ws \in SizeWindowSizes}
        \cup {SauvolaArgs("OUT_VARIABLE_MULTIW", 60, xl, DefaultK, One, One, Zero) :
                 xl \in {<<1, 46339>>, <<46339, 2, 1>>, <<3, 46340>>, <<2, 46338, 3>>}}
        \cup {IsoArgs("OUT_BACKGROUND", FALSE, FALSE, ws, DefaultK, One,
                      "ISOBG_INPAINT_INIT_MEAN", 0, Zero, Zero, 1, One) :
                 ws \in SizeWindowSizes}

InitSize ==
    /\ pc = "check"
    /\ cfg \in SizeConfigs
    /\ img \in [cols : SizeDims, rows : SizeDims, value : {1, 255}]
    /\ nanByte = 0
    /\ c = 0
    /\ stats = <<>>
    /\ threshold = <<>>
    /\ dst = <<>>
    /\ realdst = <<>>
    /\ ub = {}
    /\ written = <<>>
    /\ mask = <<>> /\ bg = <<>> /\ iter = 0 /\ ret = "none" /\ out = <<>>
    /\ argv = <<>> /\ optind = 1

\* "Check padded image size" (the test of binarizeUsingSauvola in isolate-bg)
SizeCheck ==
    /\ pc = "check"
    /\ pc' = IF SizeTooBig(img.cols, img.rows, cfg) THEN "failed" ELSE "window"
    /\ UNCHANGED <<cfg, img, ub, nanByte, argVars, written, sauvolaVars, isoVars>>

\* one window: pw, ph, the two buffers and the indices of the loops over them
SizeWindow ==
    /\ pc = "window"
    /\ c < Len(SizeWindows(cfg))
    /\ stats' = GridOf(img, SizeWindows(cfg)[c + 1])
    /\ ub' = ub \cup (IF Wrapped \in stats'.indices \cup {stats'.alloc, stats'.pw, stats'.ph}
                      THEN {<<c, "int">>} ELSE {})
                \cup (IF stats'.last1 # stats'.sum1 \/ stats'.last2 # stats'.sum2
                      THEN {<<c, "intimage_type">>} ELSE {})
    /\ c' = c + 1
    /\ UNCHANGED <<pc, cfg, img, nanByte, argVars, written, threshold, dst, realdst, isoVars>>

\* the windows are done
SizeFinish ==
    /\ pc = "window"
    /\ c = Len(SizeWindows(cfg))
    /\ pc' = "done"
    /\ UNCHANGED <<cfg, img, ub, nanByte, argVars, written, sauvolaVars, isoVars>>

NextSize == SizeCheck \/ SizeWindow \/ SizeFinish

SpecSize == InitSize /\ [][NextSize]_vars

---------------------------------------------------------------------------
(* binarize-sauvola under the Binary policy and binarizeUsingSauvola of    *)
(* isolate-bg on the same image, window, K and R scale, the thresholds of  *)
(* README.md 456 and part_003 383 computed in binary64 with their signs.   *)

\* 1 + kParam * (stddev / rParam - 1) for a stddev that is a number: whether it
\* is below zero, and its magnitude
SauvolaFactor(stddev, cf) ==
    Bind2(LAMBDA one, x :
              IF DLess(x, one)
              THEN Bind1(LAMBDA kd : IF DLess(one, kd) THEN [neg |-> TRUE, d |-> DSub(kd, one)]
                                     ELSE [neg |-> FALSE, d |-> DSub(one, kd)],
                         DMul(DFromRatio(cf.kParam), DSub(one, x)))
              ELSE [neg |-> FALSE,
                    d   |-> DAdd(one, DMul(DFromRatio(cf.kParam), DSub(x, one)))],
          DFromInt(1), DDiv(stddev, DoubleRParam(cf)))

\* (int) of a double of the given sign and magnitude below 2^31
SignedToInt(neg, d) == IF neg THEN -DToInt(d) ELSE DToInt(d)

\* int threshold = tScale * mean * (1 + kParam * (stddev / rParam - 1)) + tRealBias
BinaryThreshold(sp, cf, nanInt) ==
    IF sp.nan THEN nanInt
    ELSE Bind2(LAMBDA f, bias :
                   Bind1(LAMBDA prod :
                             IF ~f.neg THEN DToInt(DAdd(prod, bias))
                             ELSE IF DLess(prod, bias) THEN DToInt(DSub(bias, prod))
                             ELSE SignedToInt(TRUE, DSub(prod, bias)),
                         DMul(DMul(DFromRatio(cf.tScale), sp.mean), f.d)),
               SauvolaFactor(sp.stddev, cf), DoubleTRealBias(cf))

\* IsoThreshold with the product rounded to the nearest int
IsoThreshold_Nearest(sp, cf, nanInt) ==
    IF sp.nan THEN nanInt
    ELSE Bind1(LAMBDA f : SignedToInt(f.neg, DAdd(DMul(sp.mean, f.d),
                                                  DRound(<<1>>, -1, FALSE))),
               SauvolaFactor(sp.stddev, cf))

\* int threshold = mean * (1 + kParam * (stddev / rParam - 1))
IsoThreshold(sp, cf, nanInt) ==
    IF sp.nan THEN nanInt
    ELSE Bind1(LAMBDA f : SignedToInt(f.neg, DMul(sp.mean, f.d)),
               SauvolaFactor(sp.stddev, cf))

\* the options of isolate-bg that give binarizeUsingSauvola the window, K and
\* R scale of a binarize-sauvola run
AgreeIsoArgs(cf) ==
    IsoArgs("OUT_BACKGROUND", TRUE, FALSE, cf.windowSize, cf.kParam, cf.rScale,
            "ISOBG_INPAINT_INIT_MEAN", 0, Zero, Zero, 1, One)

\* Mat dst of binarizeUsingSauvola, in binary64: what it may hold, one image
\* for each value (int) NaN may give
IsoDoubleBinarize(src, cf) ==
    LET wsize == cf.integralWindowSize
    IN  Bind1(LAMBDA st :
                  {[p \in Pos |-> BinaryOut(Centre(src, wsize, p),
                                            IsoThreshold(st[p], cf, nanInt))] :
                      nanInt \in NaNInts},
              DoubleStats(src, wsize, cf))

AgreeImages ==
    {[p \in Pos |-> v] : v \in {5, 255}}
        \cup {Gradient, [p \in Pos |-> IF p = <<0, 0>> THEN 0 ELSE 255],
              [p \in Pos |-> IF p[2] = 0 THEN 100 ELSE 104],
              [p \in Pos |-> 17 + 40 * p[1] + 3 * p[2]]}

AgreeConfigs ==
    {SauvolaArgs("OUT_BINARY", ws, <<>>, q[1], q[2], One, Zero) :
        ws \in 1 .. StatWindow,
        q \in {<<Zero, One>>, <<DefaultK, One>>, <<DefaultK, <<1, 32>>>>, <<<<3, 1>>, <<3, 2>>>>}}

InitAgree ==
    /\ pc = "check"
    /\ cfg \in AgreeConfigs
    /\ img \in AgreeImages
    /\ nanByte = 0
    /\ c = 0
    /\ stats = <<>>
    /\ threshold = <<>>
    /\ dst = <<>>
    /\ realdst = <<>>
    /\ ub = {}
    /\ written = <<>>
    /\ mask = <<>> /\ bg = <<>> /\ iter = 0 /\ ret = "none" /\ out = <<>>
    /\ argv = <<>> /\ optind = 1

\* the one turn of "Iterate over window sizes" of the Binary policy
AgreeWindow ==
    /\ pc = "window"
    /\ c < Len(cfg.multiWindowSize)
    /\ stats' = DoubleStats(img, cfg.multiWindowSize[c + 1], cfg)
    /\ ub' = ub \cup {<<c, p>> : p \in {q \in Pos : stats'[q].nan}}
    /\ \E nanInt \in NaNInts :
           /\ threshold' = [p \in Pos |-> BinaryThreshold(stats'[p], cfg, nanInt)]
           /\ dst' = [p \in Pos |-> BinaryOut(Centre(img, cfg.multiWindowSize[c + 1], p),
                                              threshold'[p])]
           /\ realdst' = dst'
    /\ c' = c + 1
    /\ UNCHANGED <<pc, cfg, img, nanByte, argVars, written, isoVars>>

\* isolate-bg's binarizeUsingSauvola on the image binarize-sauvola has written
AgreeIso ==
    /\ pc = "done"
    /\ mask = <<>>
    /\ IF IsoSizeTooBig(ImgW, ImgH, cfg.windowSize)
       THEN ret' = "false" /\ UNCHANGED mask
       ELSE /\ ret' = "true"
            /\ mask' \in IsoDoubleBinarize(img, AgreeIsoArgs(cfg))
    /\ pc' = "compared"
    /\ UNCHANGED <<cfg, img, ub, nanByte, argVars, written, sauvolaVars, bg, iter, out>>

NextAgree == SauvolaCheck \/ AgreeWindow \/ SauvolaWrite \/ AgreeIso

SpecAgree == InitAgree /\ [][NextAgree]_vars

---------------------------------------------------------------------------
(* Claims about isolate-bg.                                                *)

\* C3: when fastInpaint reports failure (no unmasked pixel), the run ends as
\* a failure: neither the blur, the output stage nor the brightness stretch
\* runs afterwards, and no image is written.
C3_InpaintFailureIsFatal ==
    (ret = "false") =>
        /\ pc \notin {"output", "stretch", "write", "done"}
        /\ written = <<>>

\* C7: in normalised-image mode every background sample used as a divisor is
\* nonzero, so every output sample is clamp(alpha * input / background, 0, 1)
\* * 255, a defined value of 0 .. 255 (no NaN is converted).
C7_BackgroundDivisorNonzero ==
    (pc = "stretch" /\ cfg.programMode = "OUT_NORMALIZED_IMAGE") =>
        /\ ub = {}
        /\ \A p \in Pos : \A ch \in 1 .. Channels(img) :
               /\ bg[p][ch] # 0
               /\ out[p][ch] = (255 * Min(cfg.backgroundAlpha[1] * img[p][ch],
                                          cfg.backgroundAlpha[2] * bg[p][ch]))
                                   \div (cfg.backgroundAlpha[2] * bg[p][ch])

L1(p, q) == Abs(p[1] - q[1]) + Abs(p[2] - q[2])

\* the least L1 distance from p to an unmasked pixel of the image
NearestDist(m, p) ==
    CHOOSE d \in 0 .. ImgW + ImgH :
        /\ \E q \in Unmasked(m) : L1(p, q) = d
        /\ \A q \in Unmasked(m) : L1(p, q) >= d

\* the places <<Y, X>> of ring d around p in the stated order: k ascending, and
\* for each k (x+k, y-d+k), (x+d-k, y+k), (x-k, y+d-k), (x-d+k, y-k)
ScanOrder(p, d) ==
    [i \in 1 .. 4 * d |->
        LET k == (i - 1) \div 4
            j == (i - 1) % 4
            x == p[2]
            y == p[1]
        IN  IF j = 0 THEN <<y - d + k, x + k>>
            ELSE IF j = 1 THEN <<y + k, x + d - k>>
            ELSE IF j = 2 THEN <<y + d - k, x - k>>
            ELSE <<y - k, x - d + k>>]

\* the first unmasked pixel of the nearest ring in the stated order
FirstDonor(m, p) ==
    LET seq  == ScanOrder(p, NearestDist(m, p))
        good == {i \in DOMAIN seq : seq[i] \in Unmasked(m)}
    IN  seq[CHOOSE i \in good : \A j \in good : i <= j]

\* C8: nearest-L1 initialisation, for a mask with an unmasked pixel, ends for
\* every masked pixel and gives it the source value of an unmasked pixel at
\* the least L1 distance; among equidistant ones, the first in the scan order.
C8_NearestL1FillIsNearestInScanOrder ==
    (pc = "diffuse" /\ iter = 0
        /\ cfg.inpaintInitMode = "ISOBG_INPAINT_INIT_NEIGHBOR_L1") =>
        \A p \in Pos \ Unmasked(mask) :
            LET q == FirstDonor(mask, p)
            IN  /\ q \in Unmasked(mask)
                /\ \A r \in Unmasked(mask) : L1(p, q) <= L1(p, r)
                /\ bg[p] = ToFloat(img)[q]

\* a masked pixel with two nearest unmasked pixels of different values
C8_Witness ==
    /\ pc = "diffuse" /\ iter = 0
    /\ cfg.inpaintInitMode = "ISOBG_INPAINT_INIT_NEIGHBOR_L1"
    /\ \E p \in Pos \ Unmasked(mask) : \E q, r \in Unmasked(mask) :
           /\ L1(p, q) = NearestDist(mask, p)
           /\ L1(p, r) = NearestDist(mask, p)
           /\ img[q] # img[r]
           /\ bg[p] = ToFloat(img)[FirstDonor(mask, p)]
    /\ \E p \in Pos \ Unmasked(mask) : NearestDist(mask, p) >= 2

\* C9: when fastInpaint succeeds every unmasked pixel of its output equals the
\* source pixel in every channel; the unmasked pixels hold the source value
\* after the initialisation and after every diffusion turn as well.
C9_UnmaskedPixelsKeepSource ==
    /\ (pc = "diffuse") => \A p \in Unmasked(mask) : bg[p] = ToFloat(img)[p]
    /\ (pc = "returned" /\ ret = "true") => \A p \in Unmasked(mask) : bg[p] = img[p]

C9_Witness ==
    /\ pc = "returned" /\ ret = "true" /\ iter >= 1
    /\ Channels(img) = 3
    /\ \E p \in Unmasked(mask) : bg[p] = img[p]
    /\ \E p \in Pos \ Unmasked(mask) : bg[p] # img[p]

\* the kernel-weighted sum of the eight neighbours of p in f (border
\* replicated, nothing from p itself unless the border repeats it)
EightNeighbourSum(f, p, ch) ==
    LET at(dy, dx) == f[<<Clamp(p[1] + dy, 0, ImgH - 1), Clamp(p[2] + dx, 0, ImgW - 1)>>][ch]
    IN  KA * (at(-1, -1) + at(-1, 1) + at(1, -1) + at(1, 1))
            + KB * (at(-1, 0) + at(0, -1) + at(0, 1) + at(1, 0))

\* one simultaneous step: every masked pixel from the values before the step
JacobiStep(f, m) ==
    [p \in Pos |->
        IF m[p] # 0
        THEN [ch \in 1 .. Channels(f) |-> RoundDiv(EightNeighbourSum(f, p, ch), KDen)]
        ELSE f[p]]

RECURSIVE JacobiSteps(_, _, _)
JacobiSteps(f, m, n) == IF n = 0 THEN f ELSE JacobiSteps(JacobiStep(f, m), m, n - 1)

\* C10: fastInpaint with iteration count n does exactly n diffusion steps on
\* the initialisation fill and stops; each step replaces every masked pixel
\* simultaneously by the kernel-weighted sum of its eight neighbours' values
\* from before the step; with n = 0 the output is the initialisation fill.
C10_ExactlyNSimultaneousSteps ==
    LET fill == InitFill(img, mask, cfg.inpaintInitMode)
    IN  /\ (pc = "diffuse") =>
               /\ iter <= cfg.inpaintIterations
               /\ bg = JacobiSteps(ToFloat(fill), mask, iter)
        /\ (pc = "returned" /\ ret = "true") =>
               /\ iter = cfg.inpaintIterations
               /\ bg = To8U(JacobiSteps(ToFloat(fill), mask, cfg.inpaintIterations))
               /\ (cfg.inpaintIterations = 0 => bg = fill)

\* two diffusion steps done on a mask with adjacent masked pixels, and the
\* output differs from the initialisation fill
C10_Witness ==
    /\ pc = "returned" /\ ret = "true"
    /\ iter >= 2 /\ iter = cfg.inpaintIterations
    /\ \E p, q \in Pos \ Unmasked(mask) : L1(p, q) = 1
    /\ bg # InitFill(img, mask, cfg.inpaintInitMode)

\* C11: when every pixel of the mask is nonzero fastInpaint returns false in
\* both initialisation modes and for any iteration count, having only cloned
\* the source (no ring search, no diffusion turn); when some mask pixel is
\* zero it returns true.
C11_FullMaskFailsElseSucceeds ==
    /\ (pc = "diffuse") => Unmasked(mask) # {}
    /\ (pc = "returned") =>
           /\ ret = (IF Unmasked(mask) = {} THEN "false" ELSE "true")
           /\ (ret = "false") => (iter = 0 /\ bg = img)

C11_Witness ==
    /\ pc = "returned" /\ ret = "false"
    /\ \A p \in Pos : mask[p] # 0
    /\ cfg.inpaintIterations >= 1
    /\ cfg.inpaintInitMode = "ISOBG_INPAINT_INIT_MEAN"

\* p is farther than d (L2) from q
Farther(p, q, d) ==
    ((p[1] - q[1]) * (p[1] - q[1]) + (p[2] - q[2]) * (p[2] - q[2])) * d[2] * d[2]
        > d[1] * d[1]

\* the set A shrunk by d: its pixels farther than d from every pixel outside
InsetSet(A, d) == {p \in A : \A q \in Pos \ A : Farther(p, q, d)}

\* the set A grown by d: negate, inset, negate
OutsetSet(A, d) == Pos \ InsetSet(Pos \ A, d)

\* the Sauvola binary output S of the run
SauvolaS == binarizeUsingSauvola(GrayOf(img), cfg)

\* C14: the mask given to fastInpaint is negate, inset(d1), negate,
\* inset(d2), negate applied to the Sauvola output S: its nonzero set is the
\* set D of the pixels with S = 0 shrunk by d1 and then grown by d2, and with
\* d1 = d2 = 0 the mask is the complement of S.  S is the mask before the
\* refinement step, the refined mask the one after it.
C14_MaskIsDarkShrunkThenGrown ==
    [][(pc = "refine" /\ pc' = "inpaint") =>
           LET D == {p \in Pos : mask[p] = 0}
           IN  /\ mask = SauvolaS
               /\ \A p \in Pos : mask'[p] \in {0, 255}
               /\ {p \in Pos : mask'[p] # 0}
                      = OutsetSet(InsetSet(D, cfg.maskDenoiseDistance1),
                                  cfg.maskDenoiseDistance2)
               /\ (cfg.maskDenoiseDistance1[1] = 0 /\ cfg.maskDenoiseDistance2[1] = 0) =>
                      \A p \in Pos : mask'[p] = 255 - mask[p]]_vars

\* a dark pixel is lost by the shrinking and a bright pixel is covered by the
\* growing, the two distances differing
C14_Witness ==
    /\ pc = "inpaint"
    /\ cfg.maskDenoiseDistance1 # cfg.maskDenoiseDistance2
    /\ cfg.maskDenoiseDistance1[1] > 0
    /\ \E p \in Pos : /\ SauvolaS[p] = 0
                      /\ p \notin InsetSet({q \in Pos : SauvolaS[q] = 0},
                                           cfg.maskDenoiseDistance1)
    /\ \E p \in Pos : SauvolaS[p] = 255 /\ mask[p] # 0
    /\ \E p \in Pos : mask[p] = 0

---------------------------------------------------------------------------
(* mask-op (unnamed/part_002).  The mask is a one-channel image over MPos; *)
(* variable img keeps it as loaded, variable mask is Mat img of main()     *)
(* while the commands rewrite it, c counts the commands done.              *)

MaskW == 3
MaskH == 3

MPos == (0 .. MaskH - 1) \X (0 .. MaskW - 1)

\* one option of the command line, <<letter, WIDTH>>, as argparse() pushes it
\* to commands: a negative width exchanges inset and outset, an outset is
\* NEG, INSET, NEG
OptionCommands(o) ==
    LET neg     == o[2][1] < 0
        width   == IF neg THEN <<-o[2][1], o[2][2]>> ELSE o[2]
        realopt == IF ~neg THEN o[1]
                   ELSE IF o[1] = "i" THEN "o" ELSE IF o[1] = "I" THEN "O"
                   ELSE IF o[1] = "o" THEN "i" ELSE "I"
        inset   == [op |-> IF realopt \in {"i", "o"} THEN "MASK_CMD_INSET_L2"
                           ELSE "MASK_CMD_INSET_L1", dist |-> width]
        negate  == [op |-> "MASK_CMD_NEG", dist |-> Zero]
    IN  IF o[1] = "n" THEN <<negate>>
        ELSE IF o[1] = "B" THEN <<[op |-> "MASK_CMD_FILL_BORDER", dist |-> Zero]>>
        ELSE IF realopt \in {"i", "I"} THEN <<inset>>
        ELSE <<negate, inset, negate>>

\* commands after the option loop of argparse()
RECURSIVE MaskOpArgs(_)
MaskOpArgs(opts) ==
    IF opts = <<>> THEN <<>> ELSE OptionCommands(Head(opts)) \o MaskOpArgs(Tail(opts))

\* MaskNeg for masks of 0 and 255 only
MaskNeg_Binary(m) == [p \in MPos |-> IF m[p] = 0 THEN 255 ELSE 0]

\* case MASK_CMD_NEG
MaskNeg(m) == [p \in MPos |-> 255 - m[p]]

\* floodFill(img, seed, Scalar(0)) with the default loDiff = upDiff = 0 and
\* 4-connectivity: region is grown by the 4-neighbours whose value equals
\* that of a pixel of the region, then every pixel of the region is set to 0
RECURSIVE FloodRegion(_, _)
FloodRegion(m, S) ==
    LET T == S \cup {q \in MPos : \E p \in S :
                        /\ Abs(p[1] - q[1]) + Abs(p[2] - q[2]) = 1
                        /\ m[q] = m[p]}
    IN  IF T = S THEN S ELSE FloodRegion(m, T)

floodFill(m, seed) ==
    LET region == FloodRegion(m, {seed})
    IN  [p \in MPos |-> IF p \in region THEN 0 ELSE m[p]]

\* the seeds case MASK_CMD_FILL_BORDER tries, in its order: for every x the
\* top then the bottom line, then for every y the left then the right line
BorderSeeds ==
    [i \in 1 .. 2 * MaskW |->
        <<IF i % 2 = 1 THEN 0 ELSE MaskH - 1, (i - 1) \div 2>>]
    \o [i \in 1 .. 2 * MaskH |->
        <<(i - 1) \div 2, IF i % 2 = 1 THEN 0 ELSE MaskW - 1>>]

\* case MASK_CMD_FILL_BORDER from seed number i on
RECURSIVE FillBorderFrom(_, _)
FillBorderFrom(m, i) ==
    IF i > Len(BorderSeeds) THEN m
    ELSE FillBorderFrom(
             IF m[BorderSeeds[i]] # 0 THEN floodFill(m, BorderSeeds[i]) ELSE m, i + 1)

\* MaskDistWithin with < in the place of <=
MaskDistWithin_Strict(m, p, dist, l1) ==
    \E q \in MPos :
        /\ m[q] = 0
        /\ IF l1
           THEN (Abs(p[1] - q[1]) + Abs(p[2] - q[2])) * dist[2] < dist[1]
           ELSE SqDist(p, q) * dist[2] * dist[2] < dist[1] * dist[1]

\* tmp.at<float>(y, x) <= cmd.dist, tmp being the exact L2 or L1 distance to
\* the nearest zero pixel.  Without any zero pixel the transform gives a
\* distance beyond the image, taken here to exceed every width tried.
MaskDistWithin(m, p, dist, l1) ==
    \E q \in MPos :
        /\ m[q] = 0
        /\ IF l1
           THEN (Abs(p[1] - q[1]) + Abs(p[2] - q[2])) * dist[2] <= dist[1]
           ELSE SqDist(p, q) * dist[2] * dist[2] <= dist[1] * dist[1]

\* MaskInsetCmd that leaves the samples beyond the width as they are
MaskInsetCmd_KeepSample(m, dist, l1) ==
    [p \in MPos |-> IF MaskDistWithin(m, p, dist, l1) THEN 0 ELSE m[p]]

\* case MASK_CMD_INSET_L2 and case MASK_CMD_INSET_L1
MaskInsetCmd(m, dist, l1) ==
    [p \in MPos |-> IF MaskDistWithin(m, p, dist, l1) THEN 0 ELSE 255]

\* the switch on cmd.op
ApplyCommand(m, cmd) ==
    IF cmd.op = "MASK_CMD_NEG" THEN MaskNeg(m)
    ELSE IF cmd.op = "MASK_CMD_FILL_BORDER" THEN FillBorderFrom(m, 1)
    ELSE MaskInsetCmd(m, cmd.dist, cmd.op = "MASK_CMD_INSET_L1")

\* Mat img after the first n commands
RECURSIVE RunCommands(_, _, _)
RunCommands(m, cmds, n) ==
    IF n = 0 THEN m ELSE ApplyCommand(RunCommands(m, cmds, n - 1), cmds[n])

\* masks tried: a rectangle, alone or with one more pixel, 255 on 0, the same with the
\* border pixels at 200 and the inner ones at 100, and the complements
MaskRects ==
    {{p \in MPos : p[1] \in a .. b /\ p[2] \in e .. f} :
        a \in 0 .. MaskH - 1, b \in 0 .. MaskH - 1, e \in 0 .. MaskW - 1, f \in 0 .. MaskW - 1}

MaskRegions == {R \cup {q} : R \in MaskRects, q \in MPos} \cup MaskRects

OnBorder(p) == p[1] \in {0, MaskH - 1} \/ p[2] \in {0, MaskW - 1}

MaskInputs ==
    {[p \in MPos |-> IF p \in S THEN 255 ELSE 0] : S \in MaskRegions}
        \cup {[p \in MPos |-> IF p \in S THEN 0 ELSE 255] : S \in MaskRects}
        \cup {[p \in MPos |-> IF p \notin S THEN 0 ELSE IF OnBorder(p) THEN 200 ELSE 100] :
                 S \in MaskRects}

\* command lines tried
MaskWidths == {<<0, 1>>, <<1, 1>>, <<3, 2>>, <<2, 1>>}

MaskOptionLists ==
    {<<<<"B", Zero>>>>, <<<<"n", Zero>>>>, <<<<"n", Zero>>, <<"B", Zero>>>>}
        \cup {<<<<"i", d>>, <<"o", d>>>> : d \in MaskWidths}
        \cup {<<<<"I", d>>, <<"O", d>>>> : d \in MaskWidths}
        \cup {<<<<"o", <<-1, 1>>>>, <<"B", Zero>>>>, <<<<"I", <<-3, 2>>>>>>,
              <<<<"O", <<-1, 1>>>>, <<"i", <<-1, 1>>>>>>}
        \cup {<<<<"n", Zero>>, <<"n", Zero>>>>, <<<<"B", Zero>>, <<"n", Zero>>, <<"n", Zero>>>>}
        \cup {<<<<i, d>>, <<"n", Zero>>, <<"B", Zero>>>> :
                 i \in {"i", "I"}, d \in {<<0, 1>>, <<1, 1>>}}
        \cup {<<<<i, d>>, <<"B", Zero>>, <<"n", Zero>>>> :
                 i \in {"i", "I"}, d \in {<<0, 1>>, <<1, 1>>}}
        \cup {<<<<"B", Zero>>, <<o, <<1, 1>>>>, <<"B", Zero>>, <<"i", <<1, 1>>>>>> :
                 o \in {"o", "O"}}

InitMaskOp ==
    /\ pc = "commands"
    /\ cfg \in {[options |-> o, commands |-> MaskOpArgs(o)] : o \in MaskOptionLists}
    /\ img \in MaskInputs
    /\ mask = img
    /\ c = 0
    /\ nanByte = 0 /\ ub = {} /\ written = <<>>
    /\ stats = <<>> /\ threshold = <<>> /\ dst = <<>> /\ realdst = <<>>
    /\ bg = <<>> /\ iter = 0 /\ ret = "none" /\ out = <<>>
    /\ argv = <<>> /\ optind = 1

\* one turn of "for (auto cmd : commands)"
MaskOpCommand ==
    /\ pc = "commands"
    /\ c < Len(cfg.commands)
    /\ mask' = ApplyCommand(mask, cfg.commands[c + 1])
    /\ c' = c + 1
    /\ UNCHANGED <<pc, cfg, img, ub, nanByte, argVars, written, stats, threshold, dst, realdst,
                   bg, iter, ret, out>>

\* imwrite(filename_out, img, params); return 0
MaskOpWrite ==
    /\ pc = "commands"
    /\ c = Len(cfg.commands)
    /\ written' = mask
    /\ pc' = "done"
    /\ UNCHANGED <<cfg, img, ub, nanByte, argVars, sauvolaVars, isoVars>>

NextMaskOp == MaskOpCommand \/ MaskOpWrite

SpecMaskOp == InitMaskOp /\ [][NextMaskOp]_vars

---------------------------------------------------------------------------
(* Claims about mask-op.                                                   *)

\* the pixels joined to S through 4-neighbouring nonzero pixels of m
RECURSIVE ForegroundComponent(_, _)
ForegroundComponent(m, S) ==
    LET T == S \cup {q \in MPos : m[q] # 0 /\ \E p \in S :
                        Abs(p[1] - q[1]) + Abs(p[2] - q[2]) = 1}
    IN  IF T = S THEN S ELSE ForegroundComponent(m, T)

\* the mask before the command just done
MaskBefore == RunCommands(img, cfg.commands, c - 1)

JustDid(op) == pc = "commands" /\ c >= 1 /\ cfg.commands[c].op = op

\* C12: after border-fill a pixel is nonzero exactly when it was nonzero
\* before and its connected component of nonzero pixels has no pixel on a
\* border line, and then it keeps its value; so no border pixel is nonzero
\* afterwards and a mask without nonzero border pixels is unchanged.
C12_BorderFillClearsBorderComponents ==
    JustDid("MASK_CMD_FILL_BORDER") =>
        \A p \in MPos :
            mask[p] = IF /\ MaskBefore[p] # 0
                         /\ \A q \in ForegroundComponent(MaskBefore, {p}) : ~OnBorder(q)
                      THEN MaskBefore[p] ELSE 0

\* the command line is inset(d), outset(d) in one norm with d >= 0, all done
InsetThenOutsetDone ==
    /\ pc = "commands" /\ c = 4
    /\ Len(cfg.options) = 2
    /\ <<cfg.options[1][1], cfg.options[2][1]>> \in {<<"i", "o">>, <<"I", "O">>}
    /\ cfg.options[1][2] = cfg.options[2][2]
    /\ cfg.options[1][2][1] >= 0

\* the distance of p and q in the norm of the first option exceeds its width
FartherThanWidth(p, q) ==
    LET d == cfg.options[1][2]
    IN  IF cfg.options[1][1] = "I"
        THEN (Abs(p[1] - q[1]) + Abs(p[2] - q[2])) * d[2] > d[1]
        ELSE ((p[1] - q[1]) * (p[1] - q[1]) + (p[2] - q[2]) * (p[2] - q[2])) * d[2] * d[2]
                 > d[1] * d[1]

\* C13: after inset(d) followed by outset(d) (outset = negate, inset(d),
\* negate), in either norm and for d >= 0, every pixel farther than d from
\* every zero pixel of the original mask is foreground, and every pixel that
\* was foreground after the inset is foreground after the outset.
C13_OutsetKeepsInsetForeground ==
    InsetThenOutsetDone =>
        /\ Len(cfg.commands) = 4
        /\ \A p \in MPos :
               /\ (\A q \in MPos : img[q] = 0 => FartherThanWidth(p, q)) => mask[p] # 0
               /\ RunCommands(img, cfg.commands, 1)[p] # 0 => mask[p] # 0

\* the inset removed foreground that the outset did not bring back, and some
\* pixel farther than d > 0 from the zero pixels stayed foreground
C13_Witness ==
    /\ InsetThenOutsetDone
    /\ cfg.options[1][2][1] > 0
    /\ \E p \in MPos : img[p] # 0 /\ mask[p] = 0
    /\ \E p \in MPos : mask[p] # 0 /\ \A q \in MPos : img[q] = 0 => FartherThanWidth(p, q)
    /\ \E q \in MPos : img[q] = 0

\* the last two commands done were both negations
JustNegatedTwice ==
    /\ pc = "commands" /\ c >= 2
    /\ cfg.commands[c - 1].op = "MASK_CMD_NEG" /\ cfg.commands[c].op = "MASK_CMD_NEG"

Binary(m) == \A p \in DOMAIN m : m[p] \in {0, 255}

\* C24: after two consecutive negate commands of mask-op the mask is pixel for
\* pixel what it was before them, whatever its sample values; the same holds
\* for two maskInvert calls of isolate-bg on the part of the mask they cover.
C24_NegateTwiceIsIdentity ==
    JustNegatedTwice =>
        /\ mask = RunCommands(img, cfg.commands, c - 2)
        /\ maskInvert(maskInvert(mask)) = [p \in Pos |-> mask[p]]

\* two negations were done on a mask that has samples other than 0 and 255
C24_Witness ==
    /\ JustNegatedTwice
    /\ ~Binary(mask)
    /\ mask = img
    /\ MaskBefore # mask

\* some inset command is among the first n commands
InsetDoneBy(n) ==
    \E j \in 1 .. n : cfg.commands[j].op \in {"MASK_CMD_INSET_L2", "MASK_CMD_INSET_L1"}

\* C27: once an inset command (L2 or L1, given as such or as the middle of an
\* outset) has been done, every sample of the mask is 0 or 255, after that
\* command and after every later command, and so is the mask written.
C27_BinaryAfterInset ==
    /\ (pc = "commands" /\ InsetDoneBy(c)) => Binary(mask)
    /\ (pc = "done" /\ InsetDoneBy(Len(cfg.commands))) => Binary(written)

\* the mask loaded had other samples than 0 and 255; an L1 inset, then a
\* border-fill and a negate were done on it, and both values are left
C27_Witness ==
    /\ pc = "commands" /\ c = 3 /\ ~Binary(img)
    /\ cfg.commands[1].op = "MASK_CMD_INSET_L1"
    /\ cfg.commands[2].op = "MASK_CMD_FILL_BORDER" /\ cfg.commands[3].op = "MASK_CMD_NEG"
    /\ \E p, q \in MPos : mask[p] = 0 /\ mask[q] = 255

---------------------------------------------------------------------------
(* Claims about the sizes of the integral images.                          *)

TwoTo64 == BigShl(<<1>>, 64)

BigLess(X, Y) == ~BigLeq(Y, X)

\* C22: every window argparse() accepts has wsize^2 * 255^2 < 2^64, and after
\* a window pass of a run that passed the size test the largest cell of the
\* running-sum grid and of the sum-of-squares grid (the last one; the samples
\* all have the same value) is what exact arithmetic gives, at most 2^64 - 1:
\* the 64-bit accumulators did not wrap.
C22_AccumulatorsNeverWrap ==
    /\ \A i \in 1 .. Len(SizeWindows(cfg)) :
           LET ws == SizeWindows(cfg)[i]
           IN  (1 <= ws /\ ws <= 16843009) =>
                   BigLess(BigProd(<<ws, ws, 255, 255>>), TwoTo64)
    /\ (pc \in {"window", "done"} /\ c > 0) =>
           /\ BigLess(stats.sum1, TwoTo64) /\ BigLess(stats.sum2, TwoTo64)
           /\ stats.last1 = stats.sum1 /\ stats.last2 = stats.sum2
           /\ BigLeq(stats.sum1, stats.sum2)
           /\ \A k \in 0 .. c - 1 : <<k, "intimage_type">> \notin ub

\* a pass over samples of value 255 whose padded image has more than 2^31 - 2^17
\* cells, so that the last cell of the second grid is more than 2^46
C22_Witness ==
    /\ pc = "done" /\ c > 0 /\ img.value = 255
    /\ ~ProdLeq(<<stats.pw, stats.ph>>, <<IntMax - 131072>>)
    /\ BigBits(stats.last2) >= 47
    /\ stats.last2 = BigProd(<<stats.pw, stats.ph, 255, 255>>)

\* the index of the last cell read for the last pixel, pw * (y + ws) + (x + ws)
\* with (x, y) = (w - 1, h - 1), where no step of it wraps
LastIndex ==
    IntAdd(IntMul(stats.pw, IntAdd(img.rows - 1, stats.wsize)),
           IntAdd(img.cols - 1, stats.wsize))

\* C25: in a run that passed the padded-size test, for the window of every
\* pass (each window of a composite run, the one window otherwise): pw = w + ws
\* and ph = h + ws do not wrap, pw * ph is at most INT_MAX, every index the
\* loops over the two grids compute is in 0 .. pw * ph - 1 with no int
\* overflow in any step, and the largest is that of the last pixel.
C25_GridIndicesInRange ==
    (pc \in {"window", "done"} /\ c >= 1) =>
        /\ stats.wsize = SizeWindows(cfg)[c]
        /\ stats.pw # Wrapped /\ stats.ph # Wrapped
        /\ stats.pw - stats.wsize = img.cols /\ stats.ph - stats.wsize = img.rows
        /\ stats.alloc # Wrapped
        /\ ProdLeq(<<stats.pw, stats.ph>>, <<IntMax>>)
        /\ Wrapped \notin stats.indices
        /\ \A i \in stats.indices : 0 <= i /\ i <= stats.alloc - 1
        /\ LastIndex = stats.alloc - 1
        /\ LastIndex \in stats.indices
        /\ \A k \in 0 .. c - 1 : <<k, "int">> \notin ub

\* a composite run whose windows differ is done; the last pass had the largest
\* window and a padded image of more than 2^31 - 2^17 cells
C25_Witness ==
    /\ pc = "done" /\ c = 3
    /\ cfg.programMode = "OUT_VARIABLE_MULTIW"
    /\ cfg.multiWindowSize[1] < cfg.multiWindowSize[3]
    /\ stats.wsize = cfg.windowSize
    /\ stats.alloc > IntMax - 131072
    /\ LastIndex = stats.alloc - 1

---------------------------------------------------------------------------
(* Claims about the brightness stretch of isolate-bg.                      *)

StretchLo == CHOOSE v \in {out[p][1] : p \in Pos} : \A q \in Pos : v <= out[q][1]
StretchHi == CHOOSE v \in {out[p][1] : p \in Pos} : \A q \in Pos : v >= out[q][1]

\* C23 (as claimed): the brightness stretch of a one-channel image whose
\* least sample lo is below its greatest sample hi sends lo to 0, hi to 255 and
\* every sample v to (v - lo) * 255 / (hi - lo) truncated, keeping the order of
\* the samples; an image with lo = hi is left as it is.
C23_StretchIsExactLinearMap ==
    [][(pc = "stretch" /\ pc' = "write" /\ cfg.adjustBrightness /\ Channels(out) = 1) =>
           IF StretchLo < StretchHi
           THEN \A p \in Pos :
                    /\ out[p][1] = StretchLo => out'[p][1] = 0
                    /\ out[p][1] = StretchHi => out'[p][1] = 255
                    /\ out'[p][1] =
                           (255 * (out[p][1] - StretchLo)) \div (StretchHi - StretchLo)
                    /\ out'[p][1] \in 0 .. 255
                    /\ \A q \in Pos : out[p][1] <= out[q][1] => out'[p][1] <= out'[q][1]
           ELSE out' = out]_vars

---------------------------------------------------------------------------
(* Claims about the two implementations of the Sauvola binarisation.       *)

\* C26: for the same grayscale image, window size, K and R scale, the image
\* binarizeUsingSauvola of isolate-bg gives is pixel for pixel the image
\* binarize-sauvola writes under the Binary policy with threshold scale 1,
\* threshold bias 0 and no prescaling, and both hold 0 and 255 only.
C26_TwoSauvolasAgree ==
    (pc = "compared") =>
        /\ ret = "true"
        /\ mask = written
        /\ \A p \in Pos : mask[p] \in {0, 255}

\* both programs have run with K > 0 and give both values, at pixels whose
\* windows are not uniform (stddev is not zero)
C26_Witness ==
    /\ pc = "compared"
    /\ cfg.kParam[1] > 0
    /\ mask = written
    /\ \E p, q \in Pos : /\ mask[p] = 0 /\ mask[q] = 255
                         /\ stats[p].stddev.m # <<>> /\ stats[q].stddev.m # <<>>
====
